---- MODULE Spec2Model ----
(***************************************************************************)
(* Model of the LSP transport and session layer of opencode-python:        *)
(*   core/lsp/transport.py  Transport (framing, request/response matching) *)
(*   core/lsp/methods.py    LSPMethods (initialize, diagnostics driver)    *)
(*   core/lsp/client.py     LSPClient (per-language registry)              *)
(*                                                                         *)
(* The module holds several specifications over one set of variables:      *)
(*   SpecCodec      byte-level behaviour of Transport._read_response       *)
(*   SpecTransport  one Transport, one requesting caller, one stopper      *)
(*   SpecDriver     LSPMethods.text_document_diagnostic on one Transport   *)
(*   SpecClient     LSPClient driven by one caller                         *)
(*   SpecConc       LSPClient driven by two concurrent callers             *)
(***************************************************************************)
EXTENDS Integers, Sequences, FiniteSets, TLC

Nil == "nil"

(***************************************************************************)
(* Part 1.  Bytes on the wire.                                             *)
(* A byte is a token.  "C" stands for the bytes of the header key          *)
(* Content-Length, "CR" and "LF" for \r and \n, "SP" for a blank; digits   *)
(* are the tokens "0".."9".  Every other token is a body byte.             *)
(***************************************************************************)

\* Bounds of the byte-level specification.
MaxFrames == 2

\* self.process.stdout.read(4096)
ReadSize == 4096

Digits == <<"0", "1", "2", "3", "4", "5", "6", "7", "8", "9">>

IsDigit(b) == \E i \in 1..10 : Digits[i] = b

DigitVal(b) == (CHOOSE i \in 1..10 : Digits[i] = b) - 1

\* The JSON texts the server may put in a frame (opaque to the framing).
Body1 == <<"{", "a", "}">>
Body2 == <<"{", "b", "b", "}">>
Bodies == {Body1, Body2}

HeaderSep == <<"CR", "LF", "CR", "LF">>
LineSep == <<"CR", "LF">>

Min(a, b) == IF a < b THEN a ELSE b

\* s[i..]
Drop(s, n) == SubSeq(s, n + 1, Len(s))

\* bytes.find(sep): 1-based index of the first occurrence of sep in s, 0 if none
Find(s, sep) ==
    LET hits == {i \in 1..(Len(s) - Len(sep) + 1) : SubSeq(s, i, i + Len(sep) - 1) = sep}
    IN  IF hits = {} THEN 0 ELSE CHOOSE i \in hits : \A j \in hits : i <= j

\* header_text.split("\r\n")
RECURSIVE SplitLines(_)
SplitLines(s) ==
    LET i == Find(s, LineSep)
    IN  IF i = 0 THEN <<s>>
        ELSE <<SubSeq(s, 1, i - 1)>> \o SplitLines(Drop(s, i + 1))

IsSpace(b) == b \in {"SP", "CR", "LF"}

\* str.strip()
RECURSIVE Strip(_)
Strip(s) ==
    IF s = <<>> THEN s
    ELSE IF IsSpace(s[1]) THEN Strip(Tail(s))
    ELSE IF IsSpace(s[Len(s)]) THEN Strip(SubSeq(s, 1, Len(s) - 1))
    ELSE s

\* str.lower() on the tokens that have a case
Lower(s) == [i \in 1..Len(s) |-> IF s[i] = "C" THEN "c" ELSE s[i]]

\* The headers dict after the loop of lines 169-173, as the value stored
\* under "content-length" (a later line overwrites an earlier one), or the
\* default "0" of headers.get("content-length", "0").
RECURSIVE ContentLengthValue(_, _)
ContentLengthValue(lines, sofar) ==
    IF lines = <<>> THEN sofar
    ELSE LET line == lines[1]
             c == Find(line, <<":">>)
             key == Lower(Strip(SubSeq(line, 1, c - 1)))
             value == Strip(Drop(line, c))
         IN  IF c # 0 /\ key = <<"c">>
             THEN ContentLengthValue(Tail(lines), value)
             ELSE ContentLengthValue(Tail(lines), sofar)

\* int(text): defined on a non-empty run of digits, ValueError otherwise
IsInt(v) == Len(v) > 0 /\ \A i \in 1..Len(v) : IsDigit(v[i])

RECURSIVE IntOf(_)
IntOf(v) == IF v = <<>> THEN 0 ELSE 10 * IntOf(SubSeq(v, 1, Len(v) - 1)) + DigitVal(v[Len(v)])

\* str(n) for n >= 0
RECURSIVE StrOfNat(_)
StrOfNat(n) == IF n < 10 THEN <<Digits[n + 1]>> ELSE StrOfNat(n \div 10) \o <<Digits[(n % 10) + 1]>>

\* f"Content-Length: {len(body)}\r\n\r\n{body}"
EncodeFrame(body) == <<"C", ":", "SP">> \o StrOfNat(Len(body)) \o HeaderSep \o body

\* Characters of a message text: "a" and "b" are ASCII letters, "U+E9" is a
\* character outside ASCII, whose UTF-8 encoding is the two bytes xC3 xA9.
\* A message is the text held by a JSON object; MaxChars bounds its length.
MaxChars == 2

Chars == {"a", "U+E9"}

Messages == UNION {[1..n -> Chars] : n \in 1..MaxChars}

\* the escape json.dumps writes for U+E9 (ensure_ascii is left at True):
\* backslash, u, 0, 0, e, 9
EscapeE9 == <<"BS", "u", "0", "0", "e", "9">>

RECURSIVE Escape(_)
Escape(text) ==
    IF text = <<>> THEN <<>>
    ELSE (IF text[1] = "U+E9" THEN EscapeE9 ELSE <<text[1]>>) \o Escape(Tail(text))

\* json.dumps(request), transport.py line 83
JsonDumps(m) == <<"{">> \o Escape(m) \o <<"}">>

\* str.encode("utf-8")
RECURSIVE Utf8Encode(_)
Utf8Encode(text) ==
    IF text = <<>> THEN <<>>
    ELSE (IF text[1] = "U+E9" THEN <<"xC3", "xA9">> ELSE <<text[1]>>) \o Utf8Encode(Tail(text))

\* bytes.decode("utf-8"): UnicodeDecodeError (Nil) on a broken sequence
RECURSIVE Utf8Decode(_)
Utf8Decode(bytes) ==
    IF bytes = <<>> THEN <<>>
    ELSE IF bytes[1] = "xA9" THEN Nil
    ELSE IF bytes[1] = "xC3"
    THEN (IF Len(bytes) >= 2 /\ bytes[2] = "xA9"
          THEN (LET rest == Utf8Decode(Drop(bytes, 2))
                IN  IF rest = Nil THEN Nil ELSE <<"U+E9">> \o rest)
          ELSE Nil)
    ELSE LET rest == Utf8Decode(Tail(bytes))
         IN  IF rest = Nil THEN Nil ELSE <<bytes[1]>> \o rest

\* the text of a JSON string body: escapes replaced, Nil if it is not one
RECURSIVE Unescape(_)
Unescape(text) ==
    IF text = <<>> THEN <<>>
    ELSE IF text[1] = "BS"
    THEN (IF Len(text) >= 6 /\ SubSeq(text, 1, 6) = EscapeE9
          THEN (LET rest == Unescape(Drop(text, 6))
                IN  IF rest = Nil THEN Nil ELSE <<"U+E9">> \o rest)
          ELSE Nil)
    ELSE IF text[1] \in {"a", "b", "U+E9"}
    THEN (LET rest == Unescape(Tail(text))
          IN  IF rest = Nil THEN Nil ELSE <<text[1]>> \o rest)
    ELSE Nil

\* json.loads(message_bytes.decode("utf-8")), line 206: the value of a
\* well-formed JSON text, an exception (Nil) otherwise
JsonLoads(bytes) ==
    LET text == Utf8Decode(bytes)
    IN  IF text = Nil THEN Nil
        ELSE IF Len(text) < 3 \/ text[1] # "{" \/ text[Len(text)] # "}" THEN Nil
        ELSE Unescape(SubSeq(text, 2, Len(text) - 1))

\* len(message.encode('utf-8')), line 84
ContentLength(message) == Len(Utf8Encode(message))

\* lines 83-86: the bytes send_request writes for message m
ClientFrame(m) ==
    LET message == JsonDumps(m)
    IN  Utf8Encode(<<"C", ":", "SP">> \o StrOfNat(ContentLength(message)) \o HeaderSep \o message)

RECURSIVE Concat(_)
Concat(ss) == IF ss = <<>> THEN <<>> ELSE ss[1] \o Concat(Tail(ss))

(***************************************************************************)
(* Part 2.  Transport._read_response over the byte stream of the server's  *)
(* standard output (SpecCodec).                                            *)
(***************************************************************************)

\* Decode calls made in one run of SpecCodec.
MaxDecodes == 3

VARIABLES
    frames,          \* the JSON texts the server writes completely, in order
    stream,          \* bytes of those frames not yet read by the client
    closed,          \* the server has closed its standard output
    rr_pc,           \* position inside _read_response: idle, header, body
    buffer,          \* local buffer of _read_response (line 131)
    content_length,  \* local content_length (line 175)
    content_bytes,   \* local content_bytes (line 183)
    decoded,         \* return values of the finished _read_response calls
    reads            \* read() calls that returned bytes, in the latest decode call

codecVars == <<frames, stream, closed, rr_pc, buffer, content_length, content_bytes, decoded,
               reads>>

VARIABLES
    proc,        \* proc[tr]: self.process of Transport tr: none, running, exited
    request_id,  \* request_id[tr]: self.request_id
    pipe,        \* pipe[tr]: frames written by the server, unread
    sent,        \* sent[tr]: frames the client wrote to the server's stdin
    stops,       \* stops[tr]: calls of stop() that reached terminate()
    th,          \* th[t]: the state of caller thread t
    registry,    \* LSPClient._active_servers: language -> Transport (0: no entry)
    order,       \* the keys of _active_servers in insertion order
    nTr,         \* Transport objects constructed so far
    trLang,      \* trLang[tr]: the language Transport tr was started for
    initOk       \* initOk[tr]: LSPMethods.initialize returned True on tr

transportVars == <<proc, request_id, pipe, sent, stops>>
clientVars == <<registry, order, nTr, trLang, initOk>>
msgVars == <<transportVars, th, clientVars>>
vars == <<codecVars, msgVars>>

Languages == {"python", "go"}

FrameSeqs == UNION {[1..n -> Bodies] : n \in 1..MaxFrames}

InitCodec ==
    /\ frames \in FrameSeqs
    /\ stream = Concat([i \in 1..Len(frames) |-> EncodeFrame(frames[i])])
    /\ closed = FALSE
    /\ rr_pc = "idle"
    /\ buffer = <<>>
    /\ content_length = 0
    /\ content_bytes = <<>>
    /\ decoded = <<>>
    /\ reads = 0

\* return value: every local of the call dies with it
RrReturn(value) ==
    /\ decoded' = Append(decoded, value)
    /\ rr_pc' = "idle"
    /\ buffer' = <<>>
    /\ content_length' = 0
    /\ content_bytes' = <<>>

\* lines 199-206: message_bytes = content_bytes[:content_length]; json.loads
RrFinish(cbytes, clen) == RrReturn(JsonLoads(SubSeq(cbytes, 1, clen)))

\* a slice that starts at the header terminator
RemainingWithTerminator(buf, header_end) == Drop(buf, header_end - 1)

\* remaining_bytes = buffer[header_end + 4:], line 162
Remaining(buf, header_end) == Drop(buf, header_end + 3)

\* lines 160-206 once the header terminator is in buf
RrParse(buf) ==
    LET header_end == Find(buf, HeaderSep)
        header_bytes == SubSeq(buf, 1, header_end - 1)
        remaining_bytes == Remaining(buf, header_end)
        value == ContentLengthValue(SplitLines(header_bytes), <<"0">>)
    IN  IF ~IsInt(value) \/ IntOf(value) = 0
        THEN RrReturn(Nil)
        ELSE IF Len(remaining_bytes) >= IntOf(value)
        THEN RrFinish(remaining_bytes, IntOf(value))
        ELSE /\ rr_pc' = "body"
             /\ buffer' = buf
             /\ content_length' = IntOf(value)
             /\ content_bytes' = remaining_bytes
             /\ UNCHANGED decoded

\* lines 128-132: a caller enters _read_response
RrBegin ==
    /\ rr_pc = "idle"
    /\ Len(decoded) < MaxDecodes
    /\ rr_pc' = "header"
    /\ reads' = 0
    /\ UNCHANGED <<frames, stream, closed, buffer, content_length, content_bytes, decoded>>
    /\ UNCHANGED msgVars

\* lines 137-139: the timeout is noticed at the top of the header loop
RrHeaderTimeout ==
    /\ rr_pc = "header"
    /\ RrReturn(Nil)
    /\ UNCHANGED <<frames, stream, closed, reads>>
    /\ UNCHANGED msgVars

\* a buffer that holds the latest chunk only
Replaced(buf, chunk) == chunk

\* buffer += chunk, line 155
Accumulated(buf, chunk) == buf \o chunk

\* lines 150-158: read(4096) returns what the pipe holds, at most 4096 bytes
RrHeaderRead ==
    /\ rr_pc = "header"
    /\ reads' = reads + 1
    /\ \E n \in 1..Min(ReadSize, Len(stream)) :
          LET buf == Accumulated(buffer, SubSeq(stream, 1, n))
          IN  /\ stream' = Drop(stream, n)
              /\ IF Find(buf, HeaderSep) # 0
                 THEN RrParse(buf)
                 ELSE /\ buffer' = buf
                      /\ UNCHANGED <<rr_pc, content_length, content_bytes, decoded>>
    /\ UNCHANGED <<frames, closed>>
    /\ UNCHANGED msgVars

\* lines 152-154: a zero-length read
RrHeaderEof ==
    /\ rr_pc = "header"
    /\ closed /\ stream = <<>>
    /\ RrReturn(Nil)
    /\ UNCHANGED <<frames, stream, closed, reads>>
    /\ UNCHANGED msgVars

\* lines 188-190
RrBodyTimeout ==
    /\ rr_pc = "body"
    /\ RrReturn(Nil)
    /\ UNCHANGED <<frames, stream, closed, reads>>
    /\ UNCHANGED msgVars

\* lines 187-193: the timeout has not expired at the top of the body loop,
\* and the call enters read(needed), which no select guards
RrBodyEnter ==
    /\ rr_pc = "body"
    /\ rr_pc' = "body_read"
    /\ UNCHANGED <<frames, stream, closed, buffer, content_length, content_bytes, decoded, reads>>
    /\ UNCHANGED msgVars

\* lines 193-197: read(needed) returns once the pipe holds bytes, with at
\* most the bytes still missing
RrBodyRead ==
    /\ rr_pc = "body_read"
    /\ reads' = reads + 1
    /\ \E n \in 1..Min(content_length - Len(content_bytes), Len(stream)) :
          LET cb == content_bytes \o SubSeq(stream, 1, n)
          IN  /\ stream' = Drop(stream, n)
              /\ IF Len(cb) >= content_length
                 THEN RrFinish(cb, content_length)
                 ELSE /\ content_bytes' = cb
                      /\ rr_pc' = "body"
                      /\ UNCHANGED <<buffer, content_length, decoded>>
    /\ UNCHANGED <<frames, closed>>
    /\ UNCHANGED msgVars

\* lines 194-196: read(needed) returns b"" at end of file
RrBodyEof ==
    /\ rr_pc = "body_read"
    /\ closed /\ stream = <<>>
    /\ RrReturn(Nil)
    /\ UNCHANGED <<frames, stream, closed, reads>>
    /\ UNCHANGED msgVars

\* the bytes of the first k frames
WireLen(fs, k) == Len(Concat([i \in 1..k |-> EncodeFrame(fs[i])]))

\* the frames the server has written completely when n bytes are unwritten
CompleteFrames(fs, n) ==
    LET k == CHOOSE j \in 0..Len(fs) :
                 /\ WireLen(fs, j) <= WireLen(fs, Len(fs)) - n
                 /\ \A i \in 0..Len(fs) : WireLen(fs, i) <= WireLen(fs, Len(fs)) - n => i <= j
    IN  SubSeq(fs, 1, k)

\* the server process exits, possibly in the middle of a frame: the bytes
\* it has not written never arrive
ServerClose ==
    /\ ~closed
    /\ closed' = TRUE
    /\ frames' = CompleteFrames(frames, Len(stream))
    /\ stream' = <<>>
    /\ UNCHANGED <<rr_pc, buffer, content_length, content_bytes, decoded, reads>>
    /\ UNCHANGED msgVars

\* the server stops writing, possibly in the middle of a frame, and keeps
\* its standard output open: the bytes it has not written do not arrive
ServerHolds ==
    /\ ~closed
    /\ stream # <<>>
    /\ frames' = CompleteFrames(frames, Len(stream))
    /\ stream' = <<>>
    /\ UNCHANGED <<closed, rr_pc, buffer, content_length, content_bytes, decoded, reads>>
    /\ UNCHANGED msgVars

\* a step of the decode call in progress
DecodeStep ==
    \/ RrHeaderTimeout
    \/ RrHeaderRead
    \/ RrHeaderEof
    \/ RrBodyTimeout
    \/ RrBodyEnter
    \/ RrBodyRead
    \/ RrBodyEof

NextCodec ==
    \/ RrBegin
    \/ RrHeaderTimeout
    \/ RrHeaderRead
    \/ RrHeaderEof
    \/ RrBodyTimeout
    \/ RrBodyEnter
    \/ RrBodyRead
    \/ RrBodyEof
    \/ ServerClose
    \/ ServerHolds

\* the non-nil values of a sequence of return values
RECURSIVE NonNil(_)
NonNil(s) ==
    IF s = <<>> THEN <<>>
    ELSE IF s[1] = Nil THEN NonNil(Tail(s)) ELSE <<s[1]>> \o NonNil(Tail(s))

\* C2: once every byte the server wrote has been read and no decode call is
\* in progress, the decode calls have returned every frame exactly once and
\* in order.
C2_EveryFrameOnceInOrder ==
    (rr_pc = "idle" /\ stream = <<>>) =>
        NonNil(decoded) = [i \in 1..Len(frames) |-> JsonLoads(frames[i])]

(***************************************************************************)
(* Part 3.  Messages, Transport objects and caller threads.                *)
(* From here on a frame is a whole JSON-RPC message; pipe[tr] holds the    *)
(* frames the server of Transport tr has written and the client has not    *)
(* read.                                                                   *)
(***************************************************************************)

\* Transport objects built in one run, frames waiting in one pipe,
\* requests sent on one Transport.
MaxTransports == 2
MaxPipe == 2
MaxRequests == 2

Threads == {1, 2}
TrIds == 1..MaxTransports

\* a message without an "id" key
NoId == 0

Msg(i, m, u, d) == [id |-> i, method |-> m, uri |-> u, diags |-> d, result |-> Nil]

\* What a response carries under "result": a list of well-formed items, a
\* non-empty object, null, or nothing (an error response has an "error" key
\* and no "result" key).
Shapes == {"list", "object", "null", "absent"}

\* {"jsonrpc": "2.0", "id": i, "result": <r>} or {"jsonrpc": "2.0", "id": i, "error": ...}
ResponseOf(i, r) == [Msg(i, Nil, Nil, Nil) EXCEPT !.result = r]

\* {"jsonrpc": "2.0", "id": i, "result": ...}
Response(i) == ResponseOf(i, "list")
\* {"jsonrpc": "2.0", "method": "window/logMessage", ...}
LogMessage == Msg(NoId, "window/logMessage", Nil, Nil)
\* {"result": ...}: neither id nor method
Bare == Msg(NoId, Nil, Nil, Nil)
\* {"jsonrpc": "2.0", "id": i, "method": "workspace/configuration", ...}
ConfigRequest(i) == Msg(i, "workspace/configuration", Nil, Nil)
\* {"method": "textDocument/publishDiagnostics", "params": {"uri": u, "diagnostics": d}}
Publish(u, d) == Msg(NoId, "textDocument/publishDiagnostics", u, d)

Responses == {Response(i) : i \in 1..MaxRequests}

\* a frame _read_response cannot decode: no Content-Length header or
\* Content-Length 0 (transport.py lines 175-178), or a body that json.loads
\* rejects (lines 206-213)
Garbled == Msg(NoId, "garbled", Nil, Nil)

\* the head of a frame whose header is complete and whose body is not: the
\* server stopped writing in the middle of the body
Partial == Msg(NoId, "partial", Nil, Nil)

\* the value None where a message is expected
NoMsg == Msg(NoId, "none", Nil, Nil)

\* A thread outside any call.
IdleThread ==
    [pc |-> "idle",      \* position in the code
     op |-> Nil,         \* the outermost call in progress, or the last one finished
     stack |-> <<>>,     \* return addresses of the calls in progress
     tr |-> 0,           \* the Transport the current call works on
     method |-> Nil,     \* method argument of send_request
     alloc |-> 0,        \* value of request_id written at line 74 by this call
     stopsAt |-> 0,      \* stops[tr] when this call wrote its request
     stopped |-> FALSE,  \* stop() reached terminate() while this call was reading
     lateOn |-> 0,       \* the Transport on which this thread's latest send_request
                         \* that ran into a timeout returned None (0: none did)
     path |-> <<>>,      \* file_path argument of detect_language
     uri |-> <<>>,       \* textDocument.uri of the didOpen this run sent
     languageId |-> Nil, \* textDocument.languageId of the didOpen this run sent
     msg |-> NoMsg,      \* local msg
     why |-> Nil,        \* how the last _read_response ended: msg, timeout, eof,
                         \* framing (undecodable frame), error (no process)
     ret |-> NoMsg,      \* message (or None) returned by the last call that returned
     ok |-> FALSE,       \* boolean returned by the last call that returned
     list |-> "empty",   \* list returned by the last call that returned: empty, nonempty
     hs |-> 0,           \* reads made by the handshake loop (methods.py line 353)
     attempt |-> 0,      \* iterations begun of the loop at methods.py line 386
     diag |-> Nil,       \* local diagnostics: Nil (None), empty, nonempty
     cfgSeen |-> {},     \* ids of the workspace/configuration requests read in this run
     skipped |-> FALSE,  \* the wait loop of this run read a publish for another uri
     pub |-> 0,          \* target publishes written by the server after didOpen, with
                         \* attempts left to read them: 1 an empty one, 2 then a non-empty one
     runs |-> 0,         \* driver runs begun
     lang |-> Nil,       \* language argument / detected language
     raised |-> FALSE,   \* an exception escaped the last outermost call
     pos |-> 0,          \* stop_all_servers: entries of the dict iterator consumed
     size |-> 0,         \* stop_all_servers: len of the dict when the iteration began
     regAt |-> 0,        \* registry[lang] when start_language_server was called, if live
     nops |-> 0]         \* client operations begun

\* the thread record after the current call returns message value / boolean b
Returned(me, value, b) ==
    IF me.stack = <<>>
    THEN [me EXCEPT !.pc = "idle", !.ret = value, !.ok = b, !.msg = NoMsg, !.method = Nil,
                    !.why = Nil,
                    !.raised = FALSE, !.hs = 0, !.attempt = 0, !.diag = Nil,
                    !.pos = 0, !.size = 0]
    ELSE [me EXCEPT !.pc = Head(me.stack), !.stack = Tail(me.stack),
                    !.ret = value, !.ok = b, !.msg = NoMsg, !.why = Nil]

Return(t, value) == th' = [th EXCEPT ![t] = Returned(th[t], value, FALSE)]

ReturnOk(t, b) == th' = [th EXCEPT ![t] = Returned(th[t], NoMsg, b)]

ReturnList(t, l) == th' = [th EXCEPT ![t] = [Returned(th[t], NoMsg, FALSE) EXCEPT !.list = l]]

\* a start() that reports every spawned process as started
StartReturnsSpawned(outcome) == outcome # "raised"

\* the value start() returns: False from the handler (lines 53-55), False
\* when poll() shows an exit code (lines 42-49), True otherwise (line 52)
StartReturns(outcome) == outcome = "running"

\* Transport.start, lines 23-55
Start(t) ==
    LET tr == th[t].tr
    IN  /\ th[t].pc = "start"
        /\ \E outcome \in {"raised", "exited", "running"} :
              /\ proc' = [proc EXCEPT ![tr] = IF outcome = "raised" THEN "none" ELSE outcome]
              /\ ReturnOk(t, StartReturns(outcome))
        /\ UNCHANGED <<request_id, pipe, sent, stops>>
        /\ UNCHANGED <<codecVars, clientVars>>

\* an error of terminate() that leaves stop()
TerminateRaises(me) == [me EXCEPT !.pc = "idle", !.stack = <<>>, !.raised = TRUE, !.why = Nil]

\* the handler at lines 65-66: the error is logged, stop() returns
TerminateFailed(me) == Returned(me, NoMsg, FALSE)

\* Transport.stop, lines 59-61: terminate() is called on a process handle
StopTerminate(t) ==
    LET tr == th[t].tr
    IN  /\ th[t].pc = "stop"
        /\ IF proc[tr] = "none"
           THEN /\ Return(t, NoMsg)
                /\ UNCHANGED stops
           ELSE /\ stops' = [stops EXCEPT ![tr] = @ + 1]
                /\ \E raised \in BOOLEAN :
                      IF raised
                      THEN th' = [th EXCEPT ![t] = TerminateFailed(th[t])]
                      ELSE th' = [th EXCEPT ![t].pc = "stop_wait"]
        /\ UNCHANGED <<proc, request_id, pipe, sent>>
        /\ UNCHANGED <<codecVars, clientVars>>

\* a wait that times out whatever the process does
WaitTimesOutAlways(tr) == {TRUE}

\* wait(timeout=5), line 62: whether it raises TimeoutExpired.  A process
\* that has exited is reaped at once; one that is alive exits within the
\* grace period or does not.
WaitTimesOut(tr) == IF proc[tr] = "exited" THEN {FALSE} ELSE BOOLEAN

\* Transport.stop, lines 62-63: wait(timeout=5) returns or times out
StopWait(t) ==
    LET tr == th[t].tr
    IN  /\ th[t].pc = "stop_wait"
        /\ \E timedOut \in WaitTimesOut(tr) :
              IF timedOut
              THEN /\ th' = [th EXCEPT ![t].pc = "stop_kill"]
                   /\ UNCHANGED proc
              ELSE /\ proc' = [proc EXCEPT ![tr] = "exited"]
                   /\ Return(t, NoMsg)
        /\ UNCHANGED <<request_id, pipe, sent, stops>>
        /\ UNCHANGED <<codecVars, clientVars>>

\* Transport.stop, line 64: kill()
StopKill(t) ==
    LET tr == th[t].tr
    IN  /\ th[t].pc = "stop_kill"
        /\ proc' = [proc EXCEPT ![tr] = "exited"]
        /\ Return(t, NoMsg)
        /\ UNCHANGED <<request_id, pipe, sent, stops>>
        /\ UNCHANGED <<codecVars, clientVars>>

\* the process of Transport tr runs; "stalled": it runs and writes no more
Alive(tr) == proc[tr] \in {"running", "stalled"}

\* a notification that carries an id
NotificationNumbered(method) == [kind |-> "notification", id |-> 1, method |-> method]

\* notification = {"jsonrpc": "2.0", "method": method, "params": params},
\* line 119: no id
Notification(method) == [kind |-> "notification", id |-> NoId, method |-> method]

\* Transport.send_notification, lines 114-126: the frames written.  With no
\* process handle the call returns at once (lines 116-117); the write to
\* the pipe of a process that has exited raises, which is logged (lines
\* 125-126).
NotificationWritten(tr, method) ==
    IF Alive(tr)
    THEN {Append(sent[tr], Notification(method))}
    ELSE {sent[tr]}

\* the number of whole frames one read(4096) chunk may hold when p is unread
ChunkFrames(p) == 1..Len(p)

\* Transport._read_response as one step: the value returned and the frames
\* left unread.  The first frame of the chunk is decoded; what the chunk holds
\* after it is dropped with the local buffer (lines 131, 200).
ReadOutcomes(tr) ==
    IF proc[tr] = "none"
    THEN {[msg |-> NoMsg, rest |-> pipe[tr], why |-> "error"]}          \* lines 156-158
    ELSE IF pipe[tr] = <<>>
    THEN {[msg |-> NoMsg, rest |-> <<>>,                                 \* lines 137-139, 152-154
           why |-> IF proc[tr] = "exited" THEN "eof" ELSE "timeout"]}
    ELSE IF pipe[tr][1] = Partial
    THEN {[msg |-> NoMsg, rest |-> Tail(pipe[tr]),                       \* lines 188-190, 194-196
           why |-> IF proc[tr] = "exited" THEN "eof" ELSE "timeout"]}
    ELSE {[msg |-> IF pipe[tr][1] = Garbled THEN NoMsg ELSE pipe[tr][1],
           rest |-> Drop(pipe[tr], k),
           why |-> IF pipe[tr][1] = Garbled THEN "framing" ELSE "msg"] : k \in ChunkFrames(pipe[tr])}

\* where a thread calls _read_response
ReadPcs == {"sr_read", "dg_hs", "dg_wait"}

\* an allocation that hands out the current value again
NextRequestIdReused(tr) == request_id[tr]

\* self.request_id += 1, line 74
NextRequestId(tr) == request_id[tr] + 1

\* an exception that leaves the call instead of being caught
Uncaught(me) == [me EXCEPT !.pc = "idle", !.stack = <<>>, !.raised = TRUE, !.why = Nil]

\* the handler at lines 107-112: the exception is printed, None is returned
Caught(me) == Returned(me, NoMsg, FALSE)

\* send_request lines 71-87: process check, id allocation, write
SrEnter(t) ==
    LET tr == th[t].tr
    IN  /\ th[t].pc = "sr_enter"
        /\ IF proc[tr] = "none"
           THEN /\ Return(t, NoMsg)
                /\ UNCHANGED transportVars
           ELSE /\ request_id' = [request_id EXCEPT ![tr] = NextRequestId(tr)]
                /\ \E wrote \in (IF Alive(tr) THEN BOOLEAN ELSE {FALSE}) :
                      IF wrote
                      THEN /\ sent' = [sent EXCEPT ![tr] = Append(@,
                                          [kind |-> "request", id |-> NextRequestId(tr),
                                           method |-> th[t].method])]
                           /\ th' = [th EXCEPT ![t].pc = "sr_read",
                                               ![t].alloc = NextRequestId(tr),
                                               ![t].stopsAt = stops[tr],
                                               ![t].stopped = FALSE]
                      ELSE /\ th' = [th EXCEPT ![t] =                     \* lines 107-112
                                        [Caught(th[t]) EXCEPT
                                            !.alloc = NextRequestId(tr), !.stopped = FALSE]]
                           /\ UNCHANGED sent
                /\ UNCHANGED <<proc, pipe, stops>>
        /\ UNCHANGED <<codecVars, clientVars>>

\* send_request line 91
SrRead(t) ==
    LET tr == th[t].tr
    IN  /\ th[t].pc = "sr_read"
        /\ \E o \in ReadOutcomes(tr) :
              /\ pipe' = [pipe EXCEPT ![tr] = o.rest]
              /\ th' = [th EXCEPT ![t].pc = "sr_check", ![t].msg = o.msg, ![t].why = o.why]
        /\ UNCHANGED <<proc, request_id, sent, stops>>
        /\ UNCHANGED <<codecVars, clientVars>>

\* IsAwaited without the comparison against request_id: any message with an id ends the wait
IsAwaitedAnyId(m, tr) == m.id # NoId

\* "id" in msg and msg["id"] == self.request_id, line 96
IsAwaited(m, tr) == m.id # NoId /\ m.id = request_id[tr]

\* send_request lines 92-105
SrCheck(t) ==
    LET tr == th[t].tr
        m == th[t].msg
        out(v) == [Returned(th[t], v, FALSE) EXCEPT
                      !.stopped = stops[tr] > th[t].stopsAt,
                      !.lateOn = IF v = NoMsg /\ th[t].why = "timeout" THEN tr ELSE @]
    IN  /\ th[t].pc = "sr_check"
        /\ IF m = NoMsg THEN th' = [th EXCEPT ![t] = out(NoMsg)]
           ELSE IF IsAwaited(m, tr) THEN th' = [th EXCEPT ![t] = out(m)]
           ELSE th' = [th EXCEPT ![t].pc = "sr_read", ![t].msg = NoMsg, ![t].why = Nil]
        /\ UNCHANGED transportVars
        /\ UNCHANGED <<codecVars, clientVars>>

\* max_attempts, methods.py line 384
max_attempts == 30

\* line 416
IsPublish(m) == m # NoMsg /\ m.method = "textDocument/publishDiagnostics"

\* a test that takes every publish for the target's
IsTargetPublishAnyUri(m) == m.method = "textDocument/publishDiagnostics"

IsTargetPublish(m) == m.method = "textDocument/publishDiagnostics" /\ m.uri = "target"

\* bookkeeping for the properties: the server writes m while the driver of thread
\* me waits for a publish on tr and has more attempts left than frames to read
Observe(me, tr, m) ==
    IF /\ me.tr = tr /\ me.pc \in {"dg_wait", "dg_msg"}
       /\ IsTargetPublish(m)
       /\ max_attempts - me.attempt > Len(pipe[tr])
    THEN IF m.diags = "empty" /\ me.pub = 0 THEN [me EXCEPT !.pub = 1]
         ELSE IF m.diags = "nonempty" /\ me.pub = 1 THEN [me EXCEPT !.pub = 2]
         ELSE me
    ELSE me

\* the server writes a frame
ServerSend(tr, msgs) ==
    /\ proc[tr] = "running"
    /\ Len(pipe[tr]) < MaxPipe
    /\ \E m \in msgs :
          /\ pipe' = [pipe EXCEPT ![tr] = Append(@, m)]
          /\ th' = [u \in Threads |-> Observe(th[u], tr, m)]
    /\ UNCHANGED <<proc, request_id, sent, stops>>
    /\ UNCHANGED <<codecVars, clientVars>>

\* the server writes the header and a part of the body of a frame and then
\* nothing more
ServerStall(tr) ==
    /\ proc[tr] = "running"
    /\ Len(pipe[tr]) < MaxPipe
    /\ pipe' = [pipe EXCEPT ![tr] = Append(@, Partial)]
    /\ proc' = [proc EXCEPT ![tr] = "stalled"]
    /\ UNCHANGED <<request_id, sent, stops, th>>
    /\ UNCHANGED <<codecVars, clientVars>>

\* the server process exits on its own
ServerExit(tr) ==
    /\ Alive(tr)
    /\ proc' = [proc EXCEPT ![tr] = "exited"]
    /\ UNCHANGED <<request_id, pipe, sent, stops, th>>
    /\ UNCHANGED <<codecVars, clientVars>>

(***************************************************************************)
(* Part 4.  SpecTransport: one Transport object; thread 1 calls start()    *)
(* and send_request(), either thread calls stop().                         *)
(***************************************************************************)

\* stop() calls on one Transport
MaxStops == 2

\* the byte-level variables outside SpecCodec
CodecIdle ==
    /\ frames = <<>>
    /\ stream = <<>>
    /\ closed = FALSE
    /\ rr_pc = "idle"
    /\ buffer = <<>>
    /\ content_length = 0
    /\ content_bytes = <<>>
    /\ decoded = <<>>
    /\ reads = 0

\* Transport.__init__ (lines 17-21) for every Transport object, and
\* LSPClient.__init__ (client.py lines 21-26)
InitObjects ==
    /\ proc = [tr \in TrIds |-> "none"]
    /\ request_id = [tr \in TrIds |-> 0]
    /\ pipe = [tr \in TrIds |-> <<>>]
    /\ sent = [tr \in TrIds |-> <<>>]
    /\ stops = [tr \in TrIds |-> 0]
    /\ registry = [l \in Languages |-> 0]
    /\ order = <<>>
    /\ trLang = [tr \in TrIds |-> Nil]
    /\ initOk = [tr \in TrIds |-> FALSE]

\* SpecCodec: the byte-level reader alone; no Transport method is called
InitCodecAll ==
    /\ InitCodec
    /\ InitObjects
    /\ nTr = 0
    /\ th = [t \in Threads |-> IdleThread]

SpecCodec == InitCodecAll /\ [][NextCodec]_vars

\* a decode call in progress keeps running: the clock advances, select
\* returns, and a read whose bytes are there returns
FairSpecCodec == SpecCodec /\ WF_vars(DecodeStep)

InitTransport ==
    /\ CodecIdle
    /\ InitObjects
    /\ nTr = 1
    /\ th = [t \in Threads |-> [IdleThread EXCEPT !.tr = 1]]

\* a caller invokes transport.start()
CallStart(t) ==
    /\ t = 1
    /\ th[t].pc = "idle"
    /\ proc[th[t].tr] = "none"
    /\ th' = [th EXCEPT ![t].pc = "start", ![t].op = "start"]
    /\ UNCHANGED transportVars
    /\ UNCHANGED <<codecVars, clientVars>>

\* a caller invokes transport.send_request(method)
CallSendRequest(t) ==
    /\ t = 1
    /\ th[t].pc = "idle"
    /\ request_id[th[t].tr] < MaxRequests
    /\ th' = [th EXCEPT ![t].pc = "sr_enter", ![t].op = "send_request",
                        ![t].method = "test_method"]
    /\ UNCHANGED transportVars
    /\ UNCHANGED <<codecVars, clientVars>>

\* notifications a caller sends directly
MaxNotes == 1

Notes(tr) == Cardinality({k \in 1..Len(sent[tr]) : sent[tr][k].kind = "notification"})

\* a caller invokes transport.send_notification(method)
CallSendNotification(t) ==
    /\ t = 1
    /\ th[t].pc = "idle"
    /\ Notes(th[t].tr) < MaxNotes
    /\ th' = [th EXCEPT ![t].pc = "sn", ![t].op = "send_notification",
                        ![t].method = "test_notification", ![t].raised = FALSE]
    /\ UNCHANGED transportVars
    /\ UNCHANGED <<codecVars, clientVars>>

\* Transport.send_notification, lines 114-126
SendNotification(t) ==
    LET tr == th[t].tr
    IN  /\ th[t].pc = "sn"
        /\ \E w \in NotificationWritten(tr, th[t].method) :
               sent' = [sent EXCEPT ![tr] = w]
        /\ Return(t, NoMsg)
        /\ UNCHANGED <<proc, request_id, pipe, stops>>
        /\ UNCHANGED <<codecVars, clientVars>>

\* a caller invokes transport.stop()
CallStop(t) ==
    /\ th[t].pc = "idle"
    /\ stops[th[t].tr] < MaxStops
    /\ th' = [th EXCEPT ![t].pc = "stop", ![t].op = "stop"]
    /\ UNCHANGED transportVars
    /\ UNCHANGED <<codecVars, clientVars>>

\* what a server may write at any time
TransportMsgs == Responses \cup {LogMessage, Bare, ConfigRequest(1), Garbled}

\* a step of thread t inside a Transport method
TransportStep(t) ==
    \/ Start(t)
    \/ StopTerminate(t)
    \/ StopWait(t)
    \/ StopKill(t)
    \/ SrEnter(t)
    \/ SrRead(t)
    \/ SrCheck(t)
    \/ SendNotification(t)

NextTransport ==
    \/ \E t \in Threads : CallStart(t)
    \/ \E t \in Threads : CallSendRequest(t)
    \/ \E t \in Threads : CallSendNotification(t)
    \/ \E t \in Threads : SendNotification(t)
    \/ \E t \in Threads : CallStop(t)
    \/ \E t \in Threads : Start(t)
    \/ \E t \in Threads : StopTerminate(t)
    \/ \E t \in Threads : StopWait(t)
    \/ \E t \in Threads : StopKill(t)
    \/ \E t \in Threads : SrEnter(t)
    \/ \E t \in Threads : SrRead(t)
    \/ \E t \in Threads : SrCheck(t)
    \/ ServerSend(1, TransportMsgs)
    \/ ServerExit(1)

SpecTransport == InitTransport /\ [][NextTransport]_vars

\* a thread that is inside a call keeps running
FairSpecTransport == SpecTransport /\ \A t \in Threads : WF_vars(TransportStep(t))

\* thread t is inside send_request, after its request was written
InSendRequestWait(t) == th[t].pc \in {"sr_read", "sr_check"}

C3_SendRequestReturns ==
    \A t \in Threads : InSendRequestWait(t) ~> (th[t].pc = "idle")

\* C10: a send_request that was waiting when stop() was called on its
\* Transport returns None.
C10_StoppedRequestReturnsNil ==
    \A t \in Threads :
        (th[t].pc = "idle" /\ th[t].op = "send_request" /\ th[t].stopped)
            => th[t].ret = NoMsg

(***************************************************************************)
(* Part 5.  SpecDriver: LSPMethods.text_document_diagnostic on one         *)
(* Transport, called by thread 1.                                          *)
(***************************************************************************)

\* reads of the handshake loop in one run (the loop is bounded by 2 s of
\* wall time), and driver runs
MaxHandshakeReads == 2
MaxRuns == 1

\* class Transport defines start, stop, send_request, send_notification and
\* _read_response: it has no method send_response
HasSendResponse == FALSE

\* a caller invokes methods.text_document_diagnostic(file_path)
CallDiagnostic(t) ==
    /\ t = 1
    /\ th[t].pc = "idle"
    /\ th[t].runs < MaxRuns
    /\ th' = [th EXCEPT ![t].pc = "dg_begin", ![t].op = "diagnostic",
                        ![t].runs = @ + 1, ![t].hs = 0, ![t].attempt = 0,
                        ![t].diag = Nil, ![t].cfgSeen = {}, ![t].pub = 0,
                        ![t].skipped = FALSE, ![t].languageId = Nil]
    /\ UNCHANGED transportVars
    /\ UNCHANGED <<codecVars, clientVars>>

\* methods.py lines 347-351: read the file, set the handshake deadline
DgBegin(t) ==
    /\ th[t].pc = "dg_begin"
    /\ \E readable \in BOOLEAN :
          IF readable
          THEN th' = [th EXCEPT ![t].pc = "dg_hs"]
          ELSE ReturnList(t, "empty")                                    \* lines 431-433
    /\ UNCHANGED transportVars
    /\ UNCHANGED <<codecVars, clientVars>>

\* methods.py lines 352-353: the deadline has not passed, one more read
DgHandshakeRead(t) ==
    LET tr == th[t].tr
    IN  /\ th[t].pc = "dg_hs"
        /\ th[t].hs < MaxHandshakeReads
        /\ \E o \in ReadOutcomes(tr) :
              /\ pipe' = [pipe EXCEPT ![tr] = o.rest]
              /\ th' = [th EXCEPT ![t].pc = "dg_hs_msg", ![t].msg = o.msg, ![t].why = o.why,
                                  ![t].hs = @ + 1]
        /\ UNCHANGED <<proc, request_id, sent, stops>>
        /\ UNCHANGED <<codecVars, clientVars>>

\* the sections a workspace/configuration request asks for (params.items)
ConfigItems == <<"python", "python.analysis", "pyright", "editor">>

\* methods.py lines 360-370 and 397-407: the entry appended for section sec:
\* "{}" an empty object, "analysis" the object {"typeCheckingMode": "basic",
\* "diagnosticMode": "workspace"}, "null" None
SettingsFor(sec) ==
    CASE sec = "python" -> "{}"
      [] sec = "python.analysis" -> "analysis"
      [] sec = "pyright" -> "{}"
      [] OTHER -> "null"

\* results after the loop of lines 359-371 / 396-408
ConfigResults(items) == [j \in 1..Len(items) |-> SettingsFor(items[j])]

\* the reply of lines 372-376 / 409-413, or the AttributeError it raises
DgAnswer(t, next) ==
    LET tr == th[t].tr
        m == th[t].msg
        seen == th[t].cfgSeen \cup {m.id}
    IN  IF HasSendResponse
        THEN /\ sent' = [sent EXCEPT ![tr] = Append(@,
                            [kind |-> "response", id |-> m.id, method |-> Nil,
                             result |-> ConfigResults(ConfigItems)])]
             /\ th' = [th EXCEPT ![t].pc = next, ![t].msg = NoMsg, ![t].why = Nil,
                               ![t].cfgSeen = seen]
        ELSE /\ th' = [th EXCEPT ![t] =                                  \* lines 431-433
                          [Returned(th[t], NoMsg, FALSE) EXCEPT !.list = "empty",
                                                               !.cfgSeen = seen]]
             /\ UNCHANGED sent

\* methods.py lines 354-378
DgHandshakeMsg(t) ==
    LET m == th[t].msg
    IN  /\ th[t].pc = "dg_hs_msg"
        /\ IF m # NoMsg /\ m.method = "workspace/configuration"
           THEN DgAnswer(t, "dg_hs")
           ELSE /\ th' = [th EXCEPT ![t].pc = "dg_hs", ![t].msg = NoMsg, ![t].why = Nil]
                /\ UNCHANGED sent
        /\ UNCHANGED <<proc, request_id, pipe, stops>>
        /\ UNCHANGED <<codecVars, clientVars>>

\* the third argument of text_document_did_open at methods.py line 381, for
\* a run on the session of language lang
DidOpenLanguageId(lang) == "python"

\* methods.py lines 352, 381-384: the deadline has passed; didOpen is sent
DgOpen(t) ==
    LET tr == th[t].tr
    IN  /\ th[t].pc = "dg_hs"
        /\ th[t].hs >= 1
        /\ \E w \in NotificationWritten(tr, "textDocument/didOpen") :
              sent' = [sent EXCEPT ![tr] = w]
        /\ th' = [th EXCEPT ![t].pc = "dg_wait", ![t].languageId = DidOpenLanguageId(th[t].lang)]
        /\ UNCHANGED <<proc, request_id, pipe, stops>>
        /\ UNCHANGED <<codecVars, clientVars>>

\* methods.py lines 386-387: one more attempt
DgAttempt(t) ==
    LET tr == th[t].tr
    IN  /\ th[t].pc = "dg_wait"
        /\ th[t].attempt < max_attempts
        /\ \E o \in ReadOutcomes(tr) :
              /\ pipe' = [pipe EXCEPT ![tr] = o.rest]
              /\ th' = [th EXCEPT ![t].pc = "dg_msg", ![t].msg = o.msg, ![t].why = o.why,
                                  ![t].attempt = @ + 1]
        /\ UNCHANGED <<proc, request_id, sent, stops>>
        /\ UNCHANGED <<codecVars, clientVars>>

\* The timeout is tested before the read, not during it (lines 186-193):
\* with the header of a frame read and its body incomplete, the thread
\* enters read(needed), which returns only when bytes arrive or the pipe is
\* closed.
ReadBlocks(t) ==
    LET tr == th[t].tr
    IN  /\ th[t].pc \in ReadPcs
        /\ th[t].pc = "dg_hs" => th[t].hs < MaxHandshakeReads
        /\ th[t].pc = "dg_wait" => th[t].attempt < max_attempts
        /\ proc[tr] = "stalled"
        /\ pipe[tr] # <<>> /\ pipe[tr][1] = Partial
        /\ th' = [th EXCEPT ![t].pc = "blocked", ![t].stack = <<th[t].pc>> \o @]
        /\ UNCHANGED transportVars
        /\ UNCHANGED <<codecVars, clientVars>>

\* the process has exited: read(needed) returns b"" (lines 194-196)
ReadUnblocks(t) ==
    LET tr == th[t].tr
    IN  /\ th[t].pc = "blocked"
        /\ proc[tr] = "exited"
        /\ th' = [th EXCEPT ![t].pc = Head(th[t].stack), ![t].stack = Tail(th[t].stack)]
        /\ UNCHANGED transportVars
        /\ UNCHANGED <<codecVars, clientVars>>

\* diagnostics or [], line 429
OrEmpty(d) == IF d = "nonempty" THEN "nonempty" ELSE "empty"

\* methods.py lines 386, 429: the attempts are used up
DgExhausted(t) ==
    /\ th[t].pc = "dg_wait"
    /\ th[t].attempt >= max_attempts
    /\ ReturnList(t, OrEmpty(th[t].diag))
    /\ UNCHANGED transportVars
    /\ UNCHANGED <<codecVars, clientVars>>

\* methods.py lines 388-427
DgMsg(t) ==
    LET m == th[t].msg
    IN  /\ th[t].pc = "dg_msg"
        /\ IF m # NoMsg /\ m.method = "workspace/configuration"
           THEN DgAnswer(t, "dg_wait")
           ELSE /\ UNCHANGED sent
                /\ IF m # NoMsg /\ IsTargetPublish(m) /\ th[t].diag \in {Nil, "empty"}
                   THEN IF m.diags = "nonempty"
                        THEN ReturnList(t, "nonempty")                   \* lines 422-423
                        ELSE th' = [th EXCEPT ![t].pc = "dg_wait", ![t].msg = NoMsg,
                                              ![t].why = Nil, ![t].diag = m.diags]
                   ELSE th' = [th EXCEPT ![t].pc = "dg_wait", ![t].msg = NoMsg, ![t].why = Nil,
                                         ![t].skipped = @ \/ IsPublish(m)]
        /\ UNCHANGED <<proc, request_id, pipe, stops>>
        /\ UNCHANGED <<codecVars, clientVars>>

\* what a server may write while the driver runs
DriverMsgs ==
    {LogMessage, ConfigRequest(1)}
        \cup {Publish(u, d) : u \in {"target", "other"}, d \in {"empty", "nonempty"}}

NextDriver ==
    \/ \E t \in Threads : CallStart(t)
    \/ \E t \in Threads : Start(t)
    \/ \E t \in Threads : CallDiagnostic(t)
    \/ \E t \in Threads : DgBegin(t)
    \/ \E t \in Threads : DgHandshakeRead(t)
    \/ \E t \in Threads : DgHandshakeMsg(t)
    \/ \E t \in Threads : DgOpen(t)
    \/ \E t \in Threads : DgAttempt(t)
    \/ \E t \in Threads : DgExhausted(t)
    \/ \E t \in Threads : DgMsg(t)
    \/ \E t \in Threads : ReadBlocks(t)
    \/ \E t \in Threads : ReadUnblocks(t)
    \/ ServerSend(1, DriverMsgs)
    \/ ServerStall(1)
    \/ ServerExit(1)

SpecDriver == InitTransport /\ [][NextDriver]_vars

\* a step of thread t inside text_document_diagnostic
DriverStep(t) ==
    \/ DgBegin(t)
    \/ DgHandshakeRead(t)
    \/ DgHandshakeMsg(t)
    \/ DgOpen(t)
    \/ DgAttempt(t)
    \/ DgExhausted(t)
    \/ DgMsg(t)
    \/ ReadBlocks(t)
    \/ ReadUnblocks(t)

\* a thread that is inside the driver keeps running
FairSpecDriver == SpecDriver /\ \A t \in Threads : WF_vars(DriverStep(t))

\* the driver run of thread t has ended
DriverDone(t) == th[t].pc = "idle" /\ th[t].op = "diagnostic"

\* C4: when a driver run ends, every workspace/configuration request it read
\* has been answered with a response carrying the request's id.
C4_ConfigurationAnswered ==
    \A t \in Threads :
        DriverDone(t) =>
            \A i \in th[t].cfgSeen :
                \E k \in 1..Len(sent[th[t].tr]) :
                    /\ sent[th[t].tr][k].kind = "response"
                    /\ sent[th[t].tr][k].id = i

\* C5: a driver run during which the server wrote, after didOpen and with
\* attempts left, an empty publish for the target and later a non-empty one
\* returns the non-empty list.
C5_EmptyThenRealPublish ==
    \A t \in Threads :
        (DriverDone(t) /\ th[t].pub = 2) => th[t].list = "nonempty"

(***************************************************************************)
(* Part 6.  LSPClient.  SpecClient: thread 1 calls the client's            *)
(* operations one after the other.  SpecConc: threads 1 and 2 call public  *)
(* operations and stop_all_servers concurrently.                           *)
(***************************************************************************)

\* client operations begun by one thread
MaxOps == 2

\* an exception leaves the outermost call
Raise(t) ==
    th' = [th EXCEPT ![t] = [th[t] EXCEPT !.pc = "idle", !.stack = <<>>, !.msg = NoMsg,
                                          !.why = Nil,
                                          !.method = Nil, !.raised = TRUE,
                                          !.hs = 0, !.attempt = 0, !.diag = Nil,
                                          !.pos = 0, !.size = 0,
                                          !.ret = NoMsg, !.ok = FALSE, !.list = "empty"]]

\* a public operation of ops (get_completions(file_path, position),
\* get_diagnostics(file_path)) is called on a file of language lang
\* (Nil: detect_language returns None)
CallPublic(t, ops, langs, budget) ==
    /\ th[t].pc = "idle"
    /\ th[t].nops < budget
    /\ \E op \in ops, lang \in langs :
          th' = [th EXCEPT ![t].pc = "gls", ![t].op = op, ![t].lang = lang,
                           ![t].stack = <<"pub_got">>, ![t].nops = @ + 1,
                           ![t].raised = FALSE, ![t].regAt = 0]
    /\ UNCHANGED transportVars
    /\ UNCHANGED <<codecVars, clientVars>>

\* the registry holds a Transport for language l whose process runs and
\* whose initialize succeeded
LiveRegistered(l) ==
    /\ l # Nil
    /\ registry[l] # 0
    /\ Alive(registry[l])
    /\ initOk[registry[l]]

\* start_language_server(language, server_command) is called
CallStartServer(t) ==
    /\ th[t].pc = "idle"
    /\ th[t].nops < MaxOps
    /\ \E lang \in Languages :
          th' = [th EXCEPT ![t].pc = "sls_new", ![t].op = "start_language_server",
                           ![t].lang = lang, ![t].stack = <<>>, ![t].nops = @ + 1,
                           ![t].raised = FALSE,
                           ![t].regAt = IF LiveRegistered(lang) THEN registry[lang] ELSE 0]
    /\ UNCHANGED transportVars
    /\ UNCHANGED <<codecVars, clientVars>>

\* stop_all_servers() is called: the for statement creates the dict iterator
CallStopAll(t) ==
    /\ th[t].pc = "idle"
    /\ th[t].nops < MaxOps
    /\ th' = [th EXCEPT ![t].pc = "sa_next", ![t].op = "stop_all_servers",
                        ![t].stack = <<>>, ![t].nops = @ + 1, ![t].raised = FALSE,
                        ![t].pos = 0, ![t].size = Len(order), ![t].regAt = 0]
    /\ UNCHANGED transportVars
    /\ UNCHANGED <<codecVars, clientVars>>

\* a membership test that finds no language
InActiveServersNever(l) == FALSE

\* `language in self._active_servers`, client.py line 61
InActiveServers(l) == registry[l] # 0

\* get_language_server, client.py lines 56-61
Gls(t) ==
    LET l == th[t].lang
    IN  /\ th[t].pc = "gls"
        /\ IF l = Nil THEN ReturnOk(t, FALSE)
           ELSE IF InActiveServers(l) THEN th' = [th EXCEPT ![t].pc = "gls_get"]
           ELSE th' = [th EXCEPT ![t].pc = "gls_cmd"]
        /\ UNCHANGED transportVars
        /\ UNCHANGED <<codecVars, clientVars>>

\* self._active_servers[language], client.py lines 62-63 and line 68
Lookup(t) ==
    LET l == th[t].lang
    IN  IF registry[l] = 0
        THEN Raise(t)                                                    \* KeyError
        ELSE th' = [th EXCEPT ![t] = [Returned(th[t], NoMsg, TRUE) EXCEPT !.tr = registry[l]]]

\* client.py lines 62-63
GlsGet(t) ==
    /\ th[t].pc = "gls_get"
    /\ Lookup(t)
    /\ UNCHANGED transportVars
    /\ UNCHANGED <<codecVars, clientVars>>

\* client.py lines 66-67: get_language_server_command, then the call of
\* start_language_server
GlsCmd(t) ==
    /\ th[t].pc = "gls_cmd"
    /\ \E available \in BOOLEAN :
          IF available
          THEN th' = [th EXCEPT ![t].pc = "sls_new", ![t].stack = <<"gls_started">> \o @]
          ELSE ReturnOk(t, FALSE)                                        \* line 70
    /\ UNCHANGED transportVars
    /\ UNCHANGED <<codecVars, clientVars>>

\* start_language_server, client.py lines 30-32: Transport(server_command)
\* and the call of transport.start()
SlsNew(t) ==
    /\ th[t].pc = "sls_new"
    /\ nTr < MaxTransports
    /\ nTr' = nTr + 1
    /\ trLang' = [trLang EXCEPT ![nTr + 1] = th[t].lang]
    /\ th' = [th EXCEPT ![t].pc = "start", ![t].tr = nTr + 1,
                        ![t].stack = <<"sls_started">> \o @]
    /\ UNCHANGED <<registry, order, initOk>>
    /\ UNCHANGED transportVars
    /\ UNCHANGED codecVars

\* the dict after self._active_servers[language] = transport
KeysAfterInsert(l) == IF registry[l] # 0 THEN order ELSE Append(order, l)

\* a test that takes every start for a success
StartedAlways(me) == TRUE

\* `if transport.start():`, client.py line 32
Started(me) == me.ok

\* client.py lines 32-38 and 47-49: register, then call methods.initialize,
\* which calls send_request (methods.py line 68)
SlsStarted(t) ==
    LET l == th[t].lang
    IN  /\ th[t].pc = "sls_started"
        /\ IF Started(th[t])
           THEN /\ registry' = [registry EXCEPT ![l] = th[t].tr]          \* line 33
                /\ order' = KeysAfterInsert(l)
                /\ th' = [th EXCEPT ![t].pc = "sr_enter", ![t].method = "initialize",
                                    ![t].stack = <<"init_resp", "sls_inited">> \o @]
           ELSE /\ ReturnOk(t, FALSE)
                /\ UNCHANGED <<registry, order>>
        /\ UNCHANGED <<nTr, trLang, initOk>>
        /\ UNCHANGED transportVars
        /\ UNCHANGED codecVars

\* a test that takes None for a response
GotResponseAlways(m) == TRUE

\* `if response:`, methods.py line 69
GotResponse(m) == m # NoMsg

\* LSPMethods.initialize, methods.py lines 69-72
InitResp(t) ==
    LET tr == th[t].tr
    IN  /\ th[t].pc = "init_resp"
        /\ IF GotResponse(th[t].ret)
           THEN /\ \E w \in NotificationWritten(tr, "initialized") :
                       sent' = [sent EXCEPT ![tr] = w]
                /\ initOk' = [initOk EXCEPT ![tr] = TRUE]
                /\ ReturnOk(t, TRUE)
           ELSE /\ ReturnOk(t, FALSE)
                /\ UNCHANGED <<sent, initOk>>
        /\ UNCHANGED <<proc, request_id, pipe, stops>>
        /\ UNCHANGED <<registry, order, nTr, trLang>>
        /\ UNCHANGED codecVars

\* client.py lines 38-46
SlsInited(t) ==
    /\ th[t].pc = "sls_inited"
    /\ IF th[t].ok
       THEN ReturnOk(t, TRUE)
       ELSE th' = [th EXCEPT ![t].pc = "stop", ![t].stack = <<"sls_failed">> \o @]
    /\ UNCHANGED transportVars
    /\ UNCHANGED <<codecVars, clientVars>>

\* client.py line 46
SlsFailed(t) ==
    /\ th[t].pc = "sls_failed"
    /\ ReturnOk(t, FALSE)
    /\ UNCHANGED transportVars
    /\ UNCHANGED <<codecVars, clientVars>>

\* client.py lines 67-70
GlsStarted(t) ==
    /\ th[t].pc = "gls_started"
    /\ IF th[t].ok THEN Lookup(t) ELSE ReturnOk(t, FALSE)
    /\ UNCHANGED transportVars
    /\ UNCHANGED <<codecVars, clientVars>>

\* client.py lines 77-79 and 84-86
PubGot(t) ==
    /\ th[t].pc = "pub_got"
    /\ IF ~th[t].ok THEN ReturnList(t, "empty")
       ELSE IF th[t].op = "get_completions"
       THEN th' = [th EXCEPT ![t].pc = "sr_enter", ![t].method = "textDocument/completion",
                             ![t].stack = <<"comp_resp">> \o @]
       ELSE th' = [th EXCEPT ![t].pc = "dg_begin", ![t].runs = @ + 1, ![t].hs = 0,
                             ![t].attempt = 0, ![t].diag = Nil, ![t].cfgSeen = {},
                             ![t].pub = 0, ![t].skipped = FALSE, ![t].languageId = Nil]
    /\ UNCHANGED transportVars
    /\ UNCHANGED <<codecVars, clientVars>>

\* What a method of LSPMethods makes of the value send_request returned:
\* "value" (a non-empty result), "empty" (None or []), or "raise".
\*   list comprehension over response["result"] (methods.py lines 96-98,
\*     173-175, 212-214): iterating None raises TypeError, iterating an
\*     object yields its keys and Model(**key) raises TypeError
\*   Location(**response["result"]) (lines 147-149, 160-162): ** of None or
\*     of a list raises TypeError
\*   response.get("result") (lines 186, 197): no conversion
Decode(method, m) ==
    IF m = NoMsg \/ m.result = "absent" THEN "empty"
    ELSE IF method \in {"textDocument/completion", "textDocument/references",
                        "textDocument/implementation"}
    THEN (IF m.result = "list" THEN "value" ELSE "raise")
    ELSE IF method \in {"textDocument/definition", "textDocument/typeDefinition"}
    THEN (IF m.result = "object" THEN "value" ELSE "raise")
    ELSE (IF m.result = "null" THEN "empty" ELSE "value")

\* text_document_completion, methods.py lines 96-98
CompResp(t) ==
    LET d == Decode("textDocument/completion", th[t].ret)
    IN  /\ th[t].pc = "comp_resp"
        /\ IF d = "raise" THEN Raise(t)
           ELSE ReturnList(t, IF d = "value" THEN "nonempty" ELSE "empty")
        /\ UNCHANGED transportVars
        /\ UNCHANGED <<codecVars, clientVars>>

\* a clear() that removes nothing
ClearedNothing == registry

\* the dict after self._active_servers.clear(), client.py line 176
Cleared == [l \in Languages |-> 0]

\* stop_all_servers, client.py lines 170-175: one step of the for loop
SaNext(t) ==
    /\ th[t].pc = "sa_next"
    /\ IF Len(order) # th[t].size
       THEN Raise(t)                    \* dictionary changed size during iteration
       ELSE IF th[t].pos >= Len(order)
       THEN th' = [th EXCEPT ![t].pc = "sa_clear"]
       ELSE th' = [th EXCEPT ![t].pc = "stop", ![t].pos = @ + 1,
                             ![t].tr = registry[order[th[t].pos + 1]],
                             ![t].stack = <<"sa_next">> \o @]
    /\ UNCHANGED clientVars
    /\ UNCHANGED transportVars
    /\ UNCHANGED codecVars

\* stop_all_servers, client.py line 176, after the loop has ended
SaClear(t) ==
    /\ th[t].pc = "sa_clear"
    /\ registry' = Cleared
    /\ order' = <<>>
    /\ Return(t, NoMsg)
    /\ UNCHANGED <<nTr, trLang, initOk>>
    /\ UNCHANGED transportVars
    /\ UNCHANGED codecVars

\* what the server of Transport tr may write: a response, with a result of
\* one of shapes, to a request it has received, or a log notification
ClientMsgs(tr, shapes) ==
    {ResponseOf(sent[tr][k].id, r) :
        k \in {j \in 1..Len(sent[tr]) : sent[tr][j].kind = "request"}, r \in shapes}
        \cup {LogMessage}

\* some thread is about to write to or read from the pipes of Transport tr
Busy(tr) == \E t \in Threads : th[t].tr = tr /\ th[t].pc \in {"sr_enter", "sr_read"}

\* The server of a Transport writes a frame or exits.  A call sees the pipes
\* of its Transport only where it writes a request or reads a frame, so what
\* the server did since the last such step is produced when a thread stands
\* at the next one.
ClientServerSend(tr, shapes) == Busy(tr) /\ ServerSend(tr, ClientMsgs(tr, shapes))

ClientServerExit(tr) == Busy(tr) /\ ServerExit(tr)

InitClient ==
    /\ CodecIdle
    /\ InitObjects
    /\ nTr = 0
    /\ th = [t \in Threads |-> IF t = 1 THEN IdleThread ELSE [IdleThread EXCEPT !.pc = "off"]]

NextClient ==
    \/ \E t \in Threads : CallPublic(t, {"get_completions"}, Languages \cup {Nil}, MaxOps)
    \/ \E t \in Threads : CallPublic(t, {"get_diagnostics"}, {Nil}, MaxOps)
    \/ \E t \in Threads : CallStartServer(t)
    \/ \E t \in Threads : CallStopAll(t)
    \/ \E t \in Threads : Gls(t)
    \/ \E t \in Threads : GlsGet(t)
    \/ \E t \in Threads : GlsCmd(t)
    \/ \E t \in Threads : SlsNew(t)
    \/ \E t \in Threads : Start(t)
    \/ \E t \in Threads : SlsStarted(t)
    \/ \E t \in Threads : SrEnter(t)
    \/ \E t \in Threads : SrRead(t)
    \/ \E t \in Threads : SrCheck(t)
    \/ \E t \in Threads : InitResp(t)
    \/ \E t \in Threads : SlsInited(t)
    \/ \E t \in Threads : StopTerminate(t)
    \/ \E t \in Threads : StopWait(t)
    \/ \E t \in Threads : StopKill(t)
    \/ \E t \in Threads : SlsFailed(t)
    \/ \E t \in Threads : GlsStarted(t)
    \/ \E t \in Threads : PubGot(t)
    \/ \E t \in Threads : CompResp(t)
    \/ \E t \in Threads : SaNext(t)
    \/ \E t \in Threads : SaClear(t)
    \/ \E tr \in 1..nTr : ClientServerSend(tr, Shapes)
    \/ \E tr \in 1..nTr : ClientServerExit(tr)

SpecClient == InitClient /\ [][NextClient]_vars

AllQuiet == \A t \in Threads : th[t].pc \in {"idle", "off"}

\* C6: whenever no call is in progress, every entry of _active_servers is a
\* Transport whose initialize succeeded; a start_language_server whose
\* initialize failed has left no entry for its language.
C6_RegistryHoldsInitialized ==
    AllQuiet => \A l \in Languages : registry[l] # 0 => initOk[registry[l]]

\* C7: a start_language_server called for a language that has a registered
\* live Transport returns with that same Transport still registered.
C7_StartServerIdempotent ==
    \A t \in Threads :
        (th[t].pc = "idle" /\ th[t].op = "start_language_server" /\ th[t].regAt # 0)
            => registry[th[t].lang] = th[t].regAt

(***************************************************************************)
(* SpecConc: two threads call the client's public operations at once.      *)
(* Nothing in client.py takes a lock, so the steps of the two calls        *)
(* interleave at every bytecode boundary the model distinguishes.          *)
(***************************************************************************)
\* calls made by each of the concurrent threads
MaxConcOps == 1

InitConc ==
    /\ CodecIdle
    /\ InitObjects
    /\ nTr = 0
    /\ th = [t \in Threads |-> IdleThread]

NextConc ==
    \/ \E t \in Threads : CallPublic(t, {"get_completions"}, {"python"}, MaxConcOps)
    \/ \E t \in Threads : Gls(t)
    \/ \E t \in Threads : GlsGet(t)
    \/ \E t \in Threads : GlsCmd(t)
    \/ \E t \in Threads : SlsNew(t)
    \/ \E t \in Threads : Start(t)
    \/ \E t \in Threads : SlsStarted(t)
    \/ \E t \in Threads : SrEnter(t)
    \/ \E t \in Threads : SrRead(t)
    \/ \E t \in Threads : SrCheck(t)
    \/ \E t \in Threads : InitResp(t)
    \/ \E t \in Threads : SlsInited(t)
    \/ \E t \in Threads : StopTerminate(t)
    \/ \E t \in Threads : StopWait(t)
    \/ \E t \in Threads : StopKill(t)
    \/ \E t \in Threads : SlsFailed(t)
    \/ \E t \in Threads : GlsStarted(t)
    \/ \E t \in Threads : PubGot(t)
    \/ \E t \in Threads : CompResp(t)
    \/ \E tr \in 1..nTr : ClientServerSend(tr, {"list"})
    \/ \E tr \in 1..nTr : ClientServerExit(tr)

SpecConc == InitConc /\ [][NextConc]_vars

\* C8: while public operations run concurrently, a Transport registered for
\* a language is never replaced by another one: at most one server is
\* spawned and registered per language.
C8_RegisteredOnce ==
    [][\A l \in Languages : registry[l] # 0 => registry'[l] \in {registry[l], 0}]_vars

\* the thread is inside a loop that reads the Transport's output stream
InReadLoop(t) == th[t].pc \in {"sr_read", "sr_check", "dg_hs", "dg_hs_msg", "dg_wait", "dg_msg"}

\* C9: no two callers are inside a read loop on the same Transport at once.
C9_SingleReader ==
    \A t1, t2 \in Threads :
        (t1 # t2 /\ InReadLoop(t1) /\ InReadLoop(t2)) => th[t1].tr # th[t2].tr

(***************************************************************************)
(* Part 7.  Further properties of Transport, LSPMethods and LSPClient.     *)
(***************************************************************************)

\* The messages a Transport object keeps for later delivery.  __init__
\* creates the attributes server_command, process, request_id and logger
\* only, and send_request prints a message it does not return (lines
\* 100-105) without storing it.
NotificationSink(tr) == {}

\* C11: a message that send_request reads while waiting and that is not the
\* awaited response is handed to the notification sink before the loop
\* continues.
C11_NonAwaitedKept ==
    [][\A t \in Threads :
          (/\ th[t].pc = "sr_check"
           /\ th[t].msg # NoMsg
           /\ ~IsAwaited(th[t].msg, th[t].tr)
           /\ th'[t].pc = "sr_read")
              => th[t].msg \in NotificationSink(th[t].tr)]_vars

\* the ids of the requests written on Transport tr, in the order written
RequestIds(log) ==
    {log[k].id : k \in {j \in 1..Len(log) : log[j].kind = "request"}}

\* C12: request_id never decreases; it grows by exactly one in every
\* send_request on a Transport that has a process, written or not, and in no
\* other step; a request that is written carries an id greater than the id
\* of every request written before it.
C12_RequestIdsIncrease ==
    [][\A tr \in TrIds :
          /\ request_id'[tr] >= request_id[tr]
          /\ (request_id'[tr] = request_id[tr] + 1)
                <=> (\E t \in Threads :
                        /\ th[t].tr = tr /\ th[t].pc = "sr_enter" /\ th'[t].pc # "sr_enter"
                        /\ proc[tr] # "none")
          /\ \A i \in RequestIds(sent'[tr]) \ RequestIds(sent[tr]) :
                /\ i = request_id'[tr]
                /\ \A j \in RequestIds(sent[tr]) : j < i]_vars

\* C12 witness: two requests were made, the first could not be written, and
\* the second was written with id 2.
C12_Witness ==
    /\ request_id[1] = 2
    /\ RequestIds(sent[1]) = {2}
    /\ th[1].pc = "idle" /\ th[1].op = "send_request"

\* thread t takes a step of its own
Moves(t) == th'[t].pc # th[t].pc

\* send_request of thread t ends in this step, returning None
ReturnsNone(t) == th'[t].pc = "idle" /\ th'[t].ret = NoMsg /\ ~th'[t].raised

\* C13: send_request returns None, and raises nothing, when the Transport
\* has no process (then it writes nothing and leaves request_id alone), when
\* the write fails, when the pipe is closed and when a frame cannot be
\* decoded.
C13_FailuresReturnNone ==
    [][\A t \in Threads :
          LET tr == th[t].tr
          IN  /\ (th[t].pc = "sr_enter" /\ Moves(t) /\ proc[tr] = "none")
                    => /\ ReturnsNone(t)
                       /\ request_id'[tr] = request_id[tr]
                       /\ sent'[tr] = sent[tr]
              /\ (th[t].pc = "sr_enter" /\ Moves(t) /\ proc[tr] # "none" /\ sent'[tr] = sent[tr])
                    => ReturnsNone(t)
              /\ (th[t].pc = "sr_check" /\ Moves(t) /\ th[t].why \in {"eof", "framing", "error"})
                    => ReturnsNone(t)]_vars

\* C13 witness: a send_request on a started Transport whose write failed has
\* returned None.
C13_Witness ==
    /\ th[1].pc = "idle" /\ th[1].op = "send_request"
    /\ th[1].ret = NoMsg /\ ~th[1].raised
    /\ proc[1] # "none"
    /\ request_id[1] = 1 /\ RequestIds(sent[1]) = {}

\* C14: when a read of the diagnostics driver observes EOF, the run returns
\* at once and reads no more.
C14_EofEndsDriver ==
    [][\A t \in Threads :
          (th[t].pc \in {"dg_hs_msg", "dg_msg"} /\ th[t].why = "eof" /\ Moves(t))
              => th'[t].pc = "idle"]_vars

\* C15: when a read inside send_request's wait meets a frame that cannot be
\* decoded, send_request goes on reading.
C15_FramingErrorKeepsWaiting ==
    [][\A t \in Threads :
          (th[t].pc = "sr_check" /\ th[t].why = "framing" /\ Moves(t))
              => th'[t].pc = "sr_read"]_vars

\* the public operations of LSPClient that work on a file
PublicOps == {"get_completions", "get_diagnostics"}

\* C16: a public operation of LSPClient always returns; no exception leaves
\* it.
C16_PublicOpsNeverRaise ==
    \A t \in Threads :
        (th[t].pc = "idle" /\ th[t].op \in PublicOps) => ~th[t].raised

(***************************************************************************)
(* Part 8.  SpecSession: thread 1 calls methods of one LSPMethods object   *)
(* (initialize, text_document_completion, text_document_definition,        *)
(* text_document_hover) on one Transport; the server answers with results  *)
(* of any shape.                                                           *)
(***************************************************************************)

SessionMethods ==
    {"initialize", "textDocument/completion", "textDocument/definition", "textDocument/hover"}

\* a caller invokes a method of LSPMethods, which calls send_request
CallSession(t) ==
    /\ t = 1
    /\ th[t].pc = "idle"
    /\ request_id[th[t].tr] < MaxRequests
    /\ \E m \in SessionMethods :
          th' = [th EXCEPT ![t].pc = "sr_enter", ![t].op = "session", ![t].method = m,
                           ![t].raised = FALSE,
                           ![t].stack = <<IF m = "initialize" THEN "init_resp" ELSE "ses_resp">>]
    /\ UNCHANGED transportVars
    /\ UNCHANGED <<codecVars, clientVars>>

\* the statements after send_request in text_document_completion (methods.py
\* lines 96-98), text_document_definition (147-149), text_document_hover (186)
SesResp(t) ==
    LET d == Decode(th[t].method, th[t].ret)
    IN  /\ th[t].pc = "ses_resp"
        /\ IF d = "raise" THEN Raise(t)
           ELSE ReturnList(t, IF d = "value" THEN "nonempty" ELSE "empty")
        /\ UNCHANGED transportVars
        /\ UNCHANGED <<codecVars, clientVars>>

\* what the server may write while session methods run
SessionMsgs == {ResponseOf(i, r) : i \in 1..MaxRequests, r \in Shapes} \cup {LogMessage}

NextSession ==
    \/ \E t \in Threads : CallStart(t)
    \/ \E t \in Threads : Start(t)
    \/ \E t \in Threads : CallSession(t)
    \/ \E t \in Threads : SrEnter(t)
    \/ \E t \in Threads : SrRead(t)
    \/ \E t \in Threads : SrCheck(t)
    \/ \E t \in Threads : InitResp(t)
    \/ \E t \in Threads : SesResp(t)
    \/ ServerSend(1, SessionMsgs)
    \/ ServerExit(1)

SpecSession == InitTransport /\ [][NextSession]_vars

\* the result of response m does not have the type the method expects
Mismatch(method, m) ==
    /\ m # NoMsg
    /\ \/ method = "textDocument/completion" /\ m.result # "list"
       \/ method = "textDocument/definition" /\ m.result # "object"

\* C17: a session method whose response has a result of the wrong shape
\* returns None or an empty list; it raises nothing.
C17_MismatchReturnsEmpty ==
    [][\A t \in Threads :
          (th[t].pc = "ses_resp" /\ Moves(t) /\ Mismatch(th[t].method, th[t].ret))
              => (~th'[t].raised /\ th'[t].list = "empty")]_vars

\* C18: every run of the diagnostics driver ends.
C18_DriverRunEnds ==
    \A t \in Threads : (th[t].pc = "dg_begin") ~> DriverDone(t)

\* the frame of the initialized notification
Initialized == [kind |-> "notification", id |-> NoId, method |-> "initialized"]

\* log ends with the initialize request that carries id i
EndsWithInitialize(log, i) ==
    /\ log # <<>>
    /\ log[Len(log)] = [kind |-> "request", id |-> i, method |-> "initialize"]

\* C19: initialize returns True exactly when its request got a response; the
\* initialized notification is written only by an initialize call that got a
\* response, and then directly after the initialize request, before any
\* other request on the Transport.
C19_InitializedAfterResponse ==
    [][\A tr \in TrIds :
          /\ \A t \in Threads :
                (th[t].tr = tr /\ th[t].pc = "init_resp" /\ Moves(t))
                    => /\ th'[t].ok = (th[t].ret # NoMsg)
                       /\ th[t].ret = NoMsg => sent'[tr] = sent[tr]
                       /\ th[t].ret # NoMsg =>
                             sent'[tr] \in {sent[tr], Append(sent[tr], Initialized)}
          /\ (Len(sent'[tr]) > Len(sent[tr]) /\ sent'[tr][Len(sent'[tr])] = Initialized)
                => \E t \in Threads :
                      /\ th[t].tr = tr /\ th[t].pc = "init_resp" /\ th[t].ret # NoMsg
                      /\ EndsWithInitialize(sent[tr], th[t].ret.id)]_vars

\* C19 witness: initialize got its response, wrote the notification and
\* returned True, and a later request was written after the notification.
C19_Witness ==
    /\ Len(sent[1]) = 3
    /\ sent[1][1] = [kind |-> "request", id |-> 1, method |-> "initialize"]
    /\ sent[1][2] = Initialized
    /\ sent[1][3].kind = "request"
    /\ initOk[1]

\* C20: stop() raises nothing, changes neither request_id nor the pipes,
\* leaves a Transport that has no process or whose process has exited as it
\* is, and when terminate() works leaves the process exited; a second
\* stop() therefore ends in the state the first one left.
C20_StopIdempotent ==
    [][\A t \in Threads :
          LET tr == th[t].tr
          IN  (th[t].pc \in {"stop", "stop_wait", "stop_kill"} /\ Moves(t))
                  => /\ ~th'[t].raised
                     /\ proc[tr] \in {"none", "exited"} => proc'[tr] = proc[tr]
                     /\ (th[t].pc \in {"stop_wait", "stop_kill"} /\ th'[t].pc = "idle")
                            => proc'[tr] = "exited"
                     /\ request_id' = request_id /\ sent' = sent /\ pipe' = pipe]_vars

\* C20 witness: stop() was called a second time on a Transport whose process
\* the first stop() had ended, and has returned.
C20_Witness ==
    /\ stops[1] = 2
    /\ proc[1] = "exited"
    /\ \A t \in Threads : th[t].pc = "idle"
    /\ th[2].op = "stop" /\ ~th[2].raised

\* C21: in stop(), wait() is entered only from terminate(), kill() is
\* issued only after a wait() that timed out on a process that had not
\* exited, and kill() ends the process.
C21_KillOnlyAfterTimeout ==
    [][\A t \in Threads :
          LET tr == th[t].tr
          IN  Moves(t) =>
                 /\ th'[t].pc = "stop_wait"
                       => (th[t].pc = "stop" /\ stops'[tr] = stops[tr] + 1)
                 /\ th'[t].pc = "stop_kill"
                       => (th[t].pc = "stop_wait" /\ proc[tr] # "exited")
                 /\ th[t].pc = "stop_kill" => proc'[tr] = "exited"]_vars

\* C21 witness: terminate() was called, wait() timed out on a live process
\* and kill() is about to be issued.
C21_Witness ==
    \E t \in Threads :
        th[t].pc = "stop_kill" /\ stops[th[t].tr] = 1 /\ Alive(th[t].tr)

StopPcs == {"stop", "stop_wait", "stop_kill"}

GlsSettled(t) ==
    LET l == th[t].lang
        me == th[t]
        to == th'[t]
    IN  /\ (me.pc = "gls" /\ l = Nil) =>
              (to.pc = "pub_got" /\ ~to.ok /\ UNCHANGED <<transportVars, clientVars>>)
        /\ (me.pc = "gls" /\ l # Nil) =>
              to.pc = (IF registry[l] # 0 THEN "gls_get" ELSE "gls_cmd")
        /\ me.pc = "gls_get" =>
              /\ to.pc = "pub_got" /\ to.ok /\ ~to.raised
              /\ to.tr = registry[l] /\ to.tr # 0
              /\ UNCHANGED <<transportVars, clientVars>>
        /\ me.pc = "gls_cmd" =>
              /\ UNCHANGED <<transportVars, clientVars>>
              /\ \/ to.pc = "pub_got" /\ ~to.ok
                 \/ to.pc = "sls_new" /\ registry[l] = 0
        /\ (me.pc = "sls_new" /\ me.op # "start_language_server") =>
              (nTr' = nTr + 1 /\ to.tr = nTr' /\ to.pc = "start" /\ proc[to.tr] = "none")
        /\ me.pc = "gls_started" => (to.pc = "pub_got" /\ ~to.raised /\ nTr' = nTr)

\* C24 as stated: ... and after starting a server get_language_server
\* returns a session on the newly registered Transport.
C24_SessionForStartsAndReturns ==
    [][\A t \in Threads :
          Moves(t) =>
             /\ GlsSettled(t)
             /\ th[t].pc = "gls_started" =>
                   (th'[t].ok /\ th'[t].tr = th[t].tr /\ registry[th[t].lang] = th[t].tr)]_vars

\* C24, with the outcome of the start taken into account:
\* get_language_server returns None when no language is detected or no
\* command is available; for a registered language it returns a session on
\* the registered Transport and constructs none; otherwise it constructs
\* one Transport and starts it, and returns a session on it, then the
\* registered one, exactly when start_language_server returned True, and
\* None when it returned False.
C24_SessionFor ==
    [][\A t \in Threads :
          Moves(t) =>
             /\ GlsSettled(t)
             /\ th[t].pc = "gls_started" =>
                   /\ th'[t].ok <=> th[t].ok
                   /\ th'[t].ok =>
                         (th'[t].tr = th[t].tr /\ registry[th[t].lang] = th[t].tr)]_vars

\* C24 witness: get_language_server has started the first server and
\* returned a session on the Transport it registered.
C24_Witness ==
    /\ th[1].pc = "pub_got" /\ th[1].ok /\ th[1].nops = 1
    /\ nTr = 1 /\ th[1].tr = 1 /\ registry[th[1].lang] = 1 /\ initOk[1]

\* C25: get_diagnostics and get_completions on a file of no known language
\* return an empty list, raise nothing, construct no Transport and change
\* neither the registry nor any Transport; start_language_server with a
\* command whose launch throws returns False, raises nothing and leaves the
\* registry as it was.
C25_DegradesGracefully ==
    [][\A t \in Threads :
          LET me == th[t]
              to == th'[t]
          IN  Moves(t) =>
                 /\ (me.op \in PublicOps /\ me.lang = Nil /\ me.pc = "gls") =>
                       /\ to.pc = "pub_got" /\ ~to.ok
                       /\ UNCHANGED <<transportVars, clientVars>>
                 /\ (me.op \in PublicOps /\ me.lang = Nil /\ me.pc = "pub_got") =>
                       /\ to.pc = "idle" /\ to.list = "empty" /\ ~to.raised
                       /\ UNCHANGED <<transportVars, clientVars>>
                 /\ (me.op = "start_language_server" /\ me.pc \in {"sls_new", "start"}) =>
                       (registry' = registry /\ order' = order /\ ~to.raised)
                 /\ (me.op = "start_language_server" /\ me.pc = "sls_started"
                        /\ proc[me.tr] = "none") =>
                       /\ to.pc = "idle" /\ ~to.ok /\ ~to.raised
                       /\ registry' = registry /\ order' = order
                       /\ UNCHANGED transportVars]_vars

\* C25 witness: start_language_server returned False for a command whose
\* launch threw, then get_diagnostics on a file of no known language
\* returned an empty list; the registry is still empty.
C25_Witness ==
    /\ th[1].pc = "idle" /\ th[1].op = "get_diagnostics" /\ th[1].lang = Nil
    /\ th[1].list = "empty" /\ ~th[1].raised /\ th[1].nops = 2
    /\ nTr = 1 /\ proc[1] = "none" /\ order = <<>>
    /\ \A l \in Languages : registry[l] = 0

(***************************************************************************)
(* Part 9.  SpecFrame: one frame written by send_request's encoding        *)
(* (lines 83-86) is read back by _read_response.  Every read returns some  *)
(* non-empty prefix of the bytes not yet read, so the runs cover every     *)
(* split of the frame into chunks; the chunks arrive within the timeout.   *)
(***************************************************************************)

InitFrame ==
    /\ \E m \in Messages :
          /\ frames = <<Utf8Encode(JsonDumps(m))>>
          /\ stream = ClientFrame(m)
    /\ closed = FALSE
    /\ rr_pc = "idle"
    /\ buffer = <<>>
    /\ content_length = 0
    /\ content_bytes = <<>>
    /\ decoded = <<>>
    /\ reads = 0
    /\ InitObjects
    /\ nTr = 0
    /\ th = [t \in Threads |-> IdleThread]

NextFrame ==
    \/ RrBegin
    \/ RrHeaderRead
    \/ RrBodyEnter
    \/ RrBodyRead

SpecFrame == InitFrame /\ [][NextFrame]_vars

\* the header value and the body of a frame's bytes
HeaderValue(wire) ==
    ContentLengthValue(SplitLines(SubSeq(wire, 1, Find(wire, HeaderSep) - 1)), <<"0">>)

BodyBytes(wire) == Drop(wire, Find(wire, HeaderSep) + 3)

\* _read_response when one read delivers all of wire (lines 160-206)
ReadWhole(wire) ==
    IF Find(wire, HeaderSep) = 0 \/ ~IsInt(HeaderValue(wire)) THEN Nil
    ELSE IF IntOf(HeaderValue(wire)) = 0 \/ Len(BodyBytes(wire)) < IntOf(HeaderValue(wire))
    THEN Nil
    ELSE JsonLoads(SubSeq(BodyBytes(wire), 1, IntOf(HeaderValue(wire))))

\* C26: the frame send_request's encoding writes for a message m consists
\* of the header Content-Length: N, a blank line and the JSON body, N being
\* the number of bytes of the UTF-8 body, also for a message with a
\* character outside ASCII; decoding the frame yields m.
C26_FramingRoundTrip ==
    \E m \in Messages :
       /\ frames = <<Utf8Encode(JsonDumps(m))>>
       /\ IsInt(HeaderValue(ClientFrame(m)))
       /\ IntOf(HeaderValue(ClientFrame(m))) = Len(BodyBytes(ClientFrame(m)))
       /\ BodyBytes(ClientFrame(m)) = frames[1]
       /\ Utf8Decode(frames[1]) # Nil
       /\ Len(decoded) >= 1 => (decoded[1] # Nil /\ decoded[1] = m)

\* C26 witness: a frame whose message has a character outside ASCII was
\* delivered by one read and decoded.
C26_Witness ==
    /\ Len(decoded) = 1 /\ rr_pc = "idle" /\ reads = 1 /\ stream = <<>>
    /\ decoded[1] # Nil
    /\ \E i \in 1..Len(decoded[1]) : decoded[1][i] = "U+E9"

\* C27: however the bytes of a frame are split into the chunks the reads
\* return, the decoder returns what it returns when one read delivers the
\* whole frame, and that is a message.
C27_AnySplitDecodesAlike ==
    Len(decoded) >= 1 =>
       (decoded[1] # Nil /\ decoded[1] = ReadWhole(EncodeFrame(frames[1])))

\* C27 witness: a frame was decoded from reads of one byte each, which
\* split the header, the header terminator and the body.
C27_Witness ==
    /\ Len(decoded) = 1 /\ rr_pc = "idle" /\ stream = <<>>
    /\ reads = Len(EncodeFrame(frames[1]))
    /\ decoded[1] # Nil

\* C28: send_notification raises nothing, reads nothing and leaves
\* request_id as it is; on a Transport whose process runs it writes one
\* frame, a notification with the method and no id; on a Transport that was
\* never started (or whose process has exited) it writes nothing.
C28_NotificationFireAndForget ==
    [][\A t \in Threads :
          LET tr == th[t].tr
          IN  (th[t].pc = "sn" /\ Moves(t)) =>
                 /\ th'[t].pc = "idle" /\ ~th'[t].raised
                 /\ request_id' = request_id /\ pipe' = pipe /\ proc' = proc
                 /\ \A o \in TrIds \ {tr} : sent'[o] = sent[o]
                 /\ IF Alive(tr)
                    THEN /\ Len(sent'[tr]) = Len(sent[tr]) + 1
                         /\ SubSeq(sent'[tr], 1, Len(sent[tr])) = sent[tr]
                         /\ sent'[tr][Len(sent'[tr])].kind = "notification"
                         /\ sent'[tr][Len(sent'[tr])].method = th[t].method
                         /\ sent'[tr][Len(sent'[tr])].id = NoId
                    ELSE sent'[tr] = sent[tr]]_vars

\* C28 witness: send_notification has returned on a running Transport after
\* a request: the notification is the second frame written and request_id
\* is still 1.
C28_Witness ==
    /\ th[1].pc = "idle" /\ th[1].op = "send_notification"
    /\ proc[1] = "running" /\ request_id[1] = 1
    /\ Len(sent[1]) = 2 /\ sent[1][2] = Notification("test_notification")

\* C29: when send_request returns None because _read_response ran into its
\* timeout, the step that returns leaves the process, the count of
\* terminate() calls, the registry and request_id as they were; and every
\* send_request that gets past the process check, one issued after such a
\* timeout included, allocates request_id + 1 and writes its request with
\* that id.
C29_TimeoutIsNotShutdown ==
    [][\A t \in Threads :
          LET tr == th[t].tr
          IN  Moves(t) =>
                 /\ (th[t].pc = "sr_check" /\ th[t].why = "timeout") =>
                       /\ th'[t].ret = NoMsg /\ ~th'[t].raised /\ th'[t].lateOn = tr
                       /\ proc' = proc /\ stops' = stops /\ request_id' = request_id
                       /\ registry' = registry /\ order' = order
                       /\ Alive(tr)
                 /\ (th[t].pc = "sr_enter" /\ proc[tr] # "none") =>
                       /\ request_id'[tr] = request_id[tr] + 1
                       /\ th'[t].alloc = request_id[tr] + 1
                       /\ th'[t].pc = "sr_read" =>
                             /\ Len(sent'[tr]) = Len(sent[tr]) + 1
                             /\ sent'[tr][Len(sent'[tr])].kind = "request"
                             /\ sent'[tr][Len(sent'[tr])].id = request_id[tr] + 1]_vars

\* C29 witness: a completion request with id 2 ran into the timeout; the
\* next one was written with id 3 to the same Transport, which is still
\* registered and whose process still runs, never terminated.
C29_Witness ==
    /\ th[1].pc = "sr_read" /\ th[1].lateOn = th[1].tr /\ th[1].tr = 1
    /\ th[1].alloc = 3 /\ request_id[1] = 3
    /\ sent[1][Len(sent[1])] = [kind |-> "request", id |-> 3,
                                method |-> "textDocument/completion"]
    /\ proc[1] = "running" /\ stops[1] = 0
    /\ registry[trLang[1]] = 1

(***************************************************************************)
(* Part 10.  LanguageDetector.detect_language (language.py lines 65-83).   *)
(* A path is a sequence of characters.  SpecDetect: each thread calls      *)
(* detect_language on paths of FilePaths.                                  *)
(***************************************************************************)

\* directory components in front of the file name
MaxDepth == 1

UpperCase == <<"A", "B", "C", "D", "E", "F", "G", "H", "I", "J", "K", "L", "M",
               "N", "O", "P", "Q", "R", "S", "T", "U", "V", "W", "X", "Y", "Z">>

LowerCase == <<"a", "b", "c", "d", "e", "f", "g", "h", "i", "j", "k", "l", "m",
               "n", "o", "p", "q", "r", "s", "t", "u", "v", "w", "x", "y", "z">>

\* a lower() that changes nothing
ToLowerKept(text) == text

\* str.lower()
ToLower(text) ==
    [i \in 1..Len(text) |->
        IF \E k \in 1..26 : UpperCase[k] = text[i]
        THEN LowerCase[CHOOSE k \in 1..26 : UpperCase[k] = text[i]]
        ELSE text[i]]

\* str.rfind(c): 1-based index of the last c in text, 0 if none
RFind(text, c) ==
    LET hits == {i \in 1..Len(text) : text[i] = c}
    IN  IF hits = {} THEN 0 ELSE CHOOSE i \in hits : \A j \in hits : j <= i

\* Path(file_path).name: the last component
PathName(file_path) == Drop(file_path, RFind(file_path, "/"))

\* Path.suffix: from the last dot of the name, unless that dot starts or ends
\* the name
PathSuffix(name) ==
    LET i == RFind(name, ".")
    IN  IF 1 < i /\ i < Len(name) THEN Drop(name, i - 1) ELSE <<>>

\* name.endswith(".lock"), line 79
EndsWithLock(name) ==
    Len(name) >= 5 /\ SubSeq(name, Len(name) - 4, Len(name)) = <<".", "l", "o", "c", "k">>

\* the lists of lines 71 and 75, as the strings returned for their members
SpecialName(name) ==
    CASE name = <<"d", "o", "c", "k", "e", "r", "f", "i", "l", "e">> -> "dockerfile"
      [] name = <<"m", "a", "k", "e", "f", "i", "l", "e">> -> "makefile"
      [] name = <<"c", "m", "a", "k", "e", "l", "i", "s", "t", "s", ".", "t", "x", "t">> -> "cmakelists.txt"
      [] OTHER -> Nil

ConfigName(name) ==
    CASE name = <<".", "g", "i", "t", "i", "g", "n", "o", "r", "e">> -> ".gitignore"
      [] name = <<".", "g", "i", "t", "a", "t", "t", "r", "i", "b", "u", "t", "e", "s">> -> ".gitattributes"
      [] name = <<".", "e", "d", "i", "t", "o", "r", "c", "o", "n", "f", "i", "g">> -> ".editorconfig"
      [] OTHER -> Nil

\* self.language_extensions.get(extension), lines 16-63 and 83 (the entries
\* for the suffixes of FileNames)
language_extensions(extension) ==
    CASE extension = <<".", "p", "y">> -> "python"
      [] extension = <<".", "j", "s">> -> "javascript"
      [] extension = <<".", "h", "t", "m", "l">> -> "html"
      [] extension = <<".", "c", "s", "s">> -> "css"
      [] extension = <<".", "j", "s", "o", "n">> -> "json"
      [] extension = <<".", "t", "x", "t">> -> "plaintext"
      [] extension = <<".", "l", "o", "c", "k">> -> "json"
      [] OTHER -> Nil

\* LanguageDetector.detect_language, lines 65-83
detect_language(file_path) ==
    LET name == PathName(file_path)
        extension == ToLower(PathSuffix(name))
    IN  IF SpecialName(ToLower(name)) # Nil THEN SpecialName(ToLower(name))
        ELSE IF ConfigName(ToLower(name)) # Nil THEN ConfigName(ToLower(name))
        ELSE IF EndsWithLock(name) THEN "json"
        ELSE language_extensions(extension)

\* file names and directory names the callers use
FileNames ==
    {<<"D", "o", "c", "k", "e", "r", "f", "i", "l", "e">>,
     <<"M", "A", "K", "E", "F", "I", "L", "E">>,
     <<"C", "M", "a", "k", "e", "L", "i", "s", "t", "s", ".", "t", "x", "t">>,
     <<"m", "a", "i", "n", ".", "p", "y">>,
     <<"A", "p", "p", ".", "J", "S">>,
     <<"i", "n", "d", "e", "x", ".", "h", "t", "m", "l">>,
     <<"s", "t", "y", "l", "e", ".", "C", "S", "S">>,
     <<"d", "a", "t", "a", ".", "j", "s", "o", "n">>,
     <<"C", "a", "r", "g", "o", ".", "l", "o", "c", "k">>,
     <<".", "g", "i", "t", "i", "g", "n", "o", "r", "e">>,
     <<"R", "E", "A", "D", "M", "E">>,
     <<"a", "r", "c", "h", "i", "v", "e", ".", "x", "y", "z">>,
     <<".", "p", "y">>,
     <<"d", "o", "c", "k", "e", "r", "f", "i", "l", "e", ".", "p", "y">>}

DirNames == {<<"s", "r", "c">>, <<"v", ".", "p", "y">>}

RECURSIVE Dirs(_)
Dirs(depth) ==
    IF depth = 0 THEN {<<>>}
    ELSE Dirs(depth - 1) \cup {d \o <<"/">> \o rest : d \in DirNames, rest \in Dirs(depth - 1)}

FilePaths == {dir \o name : dir \in Dirs(MaxDepth), name \in FileNames}

\* a caller invokes detect_language(file_path)
CallDetect(t) ==
    /\ th[t].pc = "idle"
    /\ \E file_path \in FilePaths :
          th' = [th EXCEPT ![t].pc = "detect", ![t].op = "detect_language",
                           ![t].path = file_path, ![t].lang = Nil, ![t].raised = FALSE]
    /\ UNCHANGED transportVars
    /\ UNCHANGED <<codecVars, clientVars>>

\* detect_language returns
Detect(t) ==
    /\ th[t].pc = "detect"
    /\ th' = [th EXCEPT ![t].pc = "idle", ![t].lang = detect_language(th[t].path)]
    /\ UNCHANGED transportVars
    /\ UNCHANGED <<codecVars, clientVars>>

NextDetect ==
    \/ \E t \in Threads : CallDetect(t)
    \/ \E t \in Threads : Detect(t)

InitDetect ==
    /\ CodecIdle
    /\ InitObjects
    /\ nTr = 0
    /\ th = [t \in Threads |-> IdleThread]

SpecDetect == InitDetect /\ [][NextDetect]_vars

\* a and b are the same text up to the case of their letters
SameIgnoringCase(a, b) ==
    /\ Len(a) = Len(b)
    /\ \A i \in 1..Len(a) :
          \/ a[i] = b[i]
          \/ \E k \in 1..26 : {a[i], b[i]} = {UpperCase[k], LowerCase[k]}

\* the file name of the path thread t passed, and its suffix
NameOf(t) == Drop(th[t].path, RFind(th[t].path, "/"))

SuffixOf(t) ==
    LET dot == RFind(NameOf(t), ".")
    IN  IF dot <= 1 \/ dot = Len(NameOf(t)) THEN <<>>
        ELSE SubSeq(NameOf(t), dot, Len(NameOf(t)))

NamedSpecially(t) ==
    \/ \E n \in {<<"d", "o", "c", "k", "e", "r", "f", "i", "l", "e">>, <<"m", "a", "k", "e", "f", "i", "l", "e">>, <<"c", "m", "a", "k", "e", "l", "i", "s", "t", "s", ".", "t", "x", "t">>,
                 <<".", "g", "i", "t", "i", "g", "n", "o", "r", "e">>, <<".", "g", "i", "t", "a", "t", "t", "r", "i", "b", "u", "t", "e", "s">>, <<".", "e", "d", "i", "t", "o", "r", "c", "o", "n", "f", "i", "g">>} :
          SameIgnoringCase(NameOf(t), n)
    \/ EndsWithLock(NameOf(t))

KnownSuffix(t) ==
    \E e \in {<<".", "p", "y">>, <<".", "j", "s">>, <<".", "h", "t", "m", "l">>, <<".", "c", "s", "s">>, <<".", "j", "s", "o", "n">>, <<".", "t", "x", "t">>, <<".", "l", "o", "c", "k">>} :
       SameIgnoringCase(SuffixOf(t), e)

\* C30: detect_language raises nothing; a file named Dockerfile or Makefile
\* in any letter case gives that name in lower case, whatever directory it
\* is in; a file with no special name gives the language of its suffix
\* taken in lower case (.py python, .js javascript, .html html, .css css,
\* .json json); a file with neither a special name nor a known suffix
\* gives None.
C30_DetectLanguage ==
    \A t \in Threads :
       (th[t].pc = "idle" /\ th[t].op = "detect_language") =>
          /\ ~th[t].raised
          /\ SameIgnoringCase(NameOf(t), <<"d", "o", "c", "k", "e", "r", "f", "i", "l", "e">>)
                => th[t].lang = "dockerfile"
          /\ SameIgnoringCase(NameOf(t), <<"m", "a", "k", "e", "f", "i", "l", "e">>) => th[t].lang = "makefile"
          /\ ~NamedSpecially(t) =>
                /\ SameIgnoringCase(SuffixOf(t), <<".", "p", "y">>) => th[t].lang = "python"
                /\ SameIgnoringCase(SuffixOf(t), <<".", "j", "s">>) => th[t].lang = "javascript"
                /\ SameIgnoringCase(SuffixOf(t), <<".", "h", "t", "m", "l">>) => th[t].lang = "html"
                /\ SameIgnoringCase(SuffixOf(t), <<".", "c", "s", "s">>) => th[t].lang = "css"
                /\ SameIgnoringCase(SuffixOf(t), <<".", "j", "s", "o", "n">>) => th[t].lang = "json"
                /\ ~KnownSuffix(t) => th[t].lang = Nil

\* C30 witness: MAKEFILE inside a directory whose name ends in .py was
\* resolved by its name.
C30_Witness ==
    /\ th[1].pc = "idle" /\ th[1].op = "detect_language"
    /\ th[1].path = <<"v", ".", "p", "y", "/", "M", "A", "K", "E", "F", "I", "L", "E">>
    /\ th[1].lang = "makefile"

\* C31: a decode call that has begun returns, whatever the server does:
\* also when it writes no byte, a header without its terminator, or a
\* header and fewer body bytes than announced, and keeps the pipe open.
C31_DecodeCallReturns == (rr_pc # "idle") ~> (rr_pc = "idle")

\* the phase of the diagnostics driver a thread is in: 1 Idle (the file is
\* not read yet), 2 Handshaking, 3 AwaitingPublish, 4 Done or TimedOut
PhaseOfPc(pc) ==
    CASE pc = "dg_begin" -> 1
      [] pc \in {"dg_hs", "dg_hs_msg"} -> 2
      [] pc \in {"dg_wait", "dg_msg"} -> 3
      [] OTHER -> 4

Phase(me) == IF me.pc = "blocked" THEN PhaseOfPc(Head(me.stack)) ELSE PhaseOfPc(me.pc)

\* the textDocument/didOpen notifications written to Transport tr
DidOpens(log) ==
    Cardinality({k \in 1..Len(log) : log[k] = Notification("textDocument/didOpen")})

\* C32: the driver never moves to an earlier phase; didOpen is written only
\* by the step that ends Handshaking; a publish is taken as the result only
\* in AwaitingPublish, after the didOpen (written, unless the process had
\* exited); and a run that has read the file and ends with the server still
\* running has sent exactly one didOpen.
C32_DriverPhases ==
    [][\A t \in Threads :
          LET tr == th[t].tr
              me == th[t]
              to == th'[t]
          IN  (Moves(t) /\ me.op = "diagnostic" /\ me.pc # "idle") =>
                 /\ Phase(to) >= Phase(me)
                 /\ DidOpens(sent'[tr]) # DidOpens(sent[tr]) =>
                       (Phase(me) = 2 /\ Phase(to) = 3 /\ DidOpens(sent'[tr]) = 1)
                 /\ ((to.pc # "idle" /\ to.diag # me.diag) \/ (to.pc = "idle" /\ to.list = "nonempty")) =>
                       (me.pc = "dg_msg" /\ (DidOpens(sent[tr]) = 1 \/ ~Alive(tr)))
                 /\ (Phase(me) >= 2 /\ to.pc = "idle" /\ Alive(tr)) =>
                       DidOpens(sent'[tr]) = 1]_vars

\* C33: when a driver run ends, every workspace/configuration request it
\* read, in the handshake or while waiting for the publish, has been
\* answered by a response with the request's id whose result has one entry
\* per requested section, in the order asked: the fixed object for
\* python.analysis and an empty object for any other section.
C33_ConfigurationReplyContent ==
    \A t \in Threads :
        DriverDone(t) =>
            \A i \in th[t].cfgSeen :
                \E k \in 1..Len(sent[th[t].tr]) :
                    /\ sent[th[t].tr][k].kind = "response"
                    /\ sent[th[t].tr][k].id = i
                    /\ sent[th[t].tr][k].result =
                          [j \in 1..Len(ConfigItems) |->
                              IF ConfigItems[j] = "python.analysis" THEN "analysis" ELSE "{}"]

\* C34: a publishDiagnostics for another uri, read by the wait loop, leaves
\* the captured list as it was and the loop waiting; and a step of the
\* driver that changes the captured list, or returns a non-empty list, is
\* the handling of a publish whose uri is the target's.
C34_OnlyTargetPublishes ==
    [][\A t \in Threads :
          LET me == th[t]  to == th'[t]
          IN  (Moves(t) /\ me.op = "diagnostic" /\ me.pc # "idle") =>
                /\ (me.pc = "dg_msg" /\ IsPublish(me.msg) /\ me.msg.uri # "target") =>
                      (to.diag = me.diag /\ to.pc = "dg_wait")
                /\ ((to.pc # "idle" /\ to.diag # me.diag) \/ (to.pc = "idle" /\ to.list = "nonempty")) =>
                      (me.pc = "dg_msg" /\ IsPublish(me.msg) /\ me.msg.uri = "target")]_vars

\* the wait loop has read a publish with diagnostics for another uri, has
\* captured nothing and goes on waiting
C34_Witness ==
    \E t \in Threads :
        /\ th[t].op = "diagnostic" /\ th[t].pc = "dg_wait"
        /\ th[t].skipped /\ th[t].diag = Nil
        /\ th[t].attempt < max_attempts

(***************************************************************************)
(* Part 11.  SpecUri: the two document URIs of one driver run.  A path is  *)
(* a sequence of separators "/" and names; the working directory is /w,    *)
(* /w/d is a directory and /w/l a symbolic link to it.                     *)
(***************************************************************************)

\* os.getcwd()
Cwd == <<"/", "w", "/">>

\* the file paths a caller passes: relative to the working directory or
\* absolute, through the directory or through the link
UriPaths ==
    {prefix \o <<dir, "/", name>> :
        prefix \in {<<>>, Cwd}, dir \in {"d", "l"}, name \in {"x.py", "a b.py"}}

\* methods.py line 110: f"file://{file_path}"
DidOpenUri(file_path) == <<"file://">> \o file_path

\* Path.resolve(): the path made absolute, symbolic links followed
Resolve(file_path) ==
    LET absolute == IF file_path # <<>> /\ file_path[1] = "/" THEN file_path
                    ELSE Cwd \o file_path
    IN  [i \in 1..Len(absolute) |-> IF absolute[i] = "l" THEN "d" ELSE absolute[i]]

\* Path.as_uri(): file:// and the path with its names percent-encoded
AsUri(path) ==
    <<"file://">> \o [i \in 1..Len(path) |-> IF path[i] = "a b.py" THEN "a%20b.py" ELSE path[i]]

\* methods.py line 419: Path(file_path).resolve().as_uri()
TargetUri(file_path) == AsUri(Resolve(file_path))

\* a caller invokes text_document_diagnostic(file_path)
CallUriRun(t) ==
    /\ th[t].pc = "idle"
    /\ th[t].op = Nil
    /\ \E file_path \in UriPaths :
          th' = [th EXCEPT ![t].pc = "uri_open", ![t].op = "diagnostic_uri",
                           ![t].path = file_path, ![t].uri = <<>>]
    /\ UNCHANGED transportVars
    /\ UNCHANGED <<codecVars, clientVars>>

\* methods.py line 381, text_document_did_open lines 108-116
UriOpen(t) ==
    /\ th[t].pc = "uri_open"
    /\ th' = [th EXCEPT ![t].pc = "uri_wait", ![t].uri = DidOpenUri(th[t].path)]
    /\ UNCHANGED transportVars
    /\ UNCHANGED <<codecVars, clientVars>>

\* methods.py lines 416-429: the server publishes diagnostics under the uri
\* of the didOpen; the run returns them if line 419 takes the publish, and
\* [] after the last attempt if it does not
UriPublished(t) ==
    /\ th[t].pc = "uri_wait"
    /\ IF th[t].uri = TargetUri(th[t].path)
       THEN ReturnList(t, "nonempty")
       ELSE ReturnList(t, "empty")
    /\ UNCHANGED transportVars
    /\ UNCHANGED <<codecVars, clientVars>>

NextUri ==
    \/ \E t \in Threads : CallUriRun(t)
    \/ \E t \in Threads : UriOpen(t)
    \/ \E t \in Threads : UriPublished(t)

SpecUri == InitDetect /\ [][NextUri]_vars

\* C35: in a driver run the uri announced in didOpen is the uri publishes
\* are matched against, for a relative path, an absolute path and a path
\* through a symbolic link alike, so the diagnostics a server publishes under
\* the uri it was given are returned.
C35_AnnouncedUriIsMatched ==
    \A t \in Threads :
        /\ (th[t].op = "diagnostic_uri" /\ th[t].pc \in {"uri_wait", "idle"}) =>
              th[t].uri = TargetUri(th[t].path)
        /\ (th[t].op = "diagnostic_uri" /\ th[t].pc = "idle") =>
              th[t].list = "nonempty"

\* C36: whenever no call is in progress, every server process the client
\* has spawned is stopped (stop() was called on its Transport, or it has
\* exited) or is the process of a Transport held in _active_servers, so
\* that the next stop_all_servers stops it.
C36_NoProcessLeaks ==
    AllQuiet =>
        \A tr \in 1..nTr :
            (Alive(tr) /\ stops[tr] = 0) => \E l \in Languages : registry[l] = tr

(***************************************************************************)
(* SpecRace: thread 1 calls stop_all_servers while thread 2 calls a public *)
(* operation that finds no server for its language and starts one.         *)
(***************************************************************************)
\* thread 1 calls stop_all_servers()
RaceStopAll(t) == t = 1 /\ CallStopAll(t)

\* thread 2 calls get_completions on a python file, up to MaxOps times
RaceLazyStart(t) == t = 2 /\ CallPublic(t, {"get_completions"}, {"python"}, MaxOps)

NextRace ==
    \/ \E t \in Threads : RaceStopAll(t)
    \/ \E t \in Threads : RaceLazyStart(t)
    \/ \E t \in Threads : SaNext(t)
    \/ \E t \in Threads : SaClear(t)
    \/ \E t \in Threads : Gls(t)
    \/ \E t \in Threads : GlsGet(t)
    \/ \E t \in Threads : GlsCmd(t)
    \/ \E t \in Threads : SlsNew(t)
    \/ \E t \in Threads : Start(t)
    \/ \E t \in Threads : SlsStarted(t)
    \/ \E t \in Threads : SrEnter(t)
    \/ \E t \in Threads : SrRead(t)
    \/ \E t \in Threads : SrCheck(t)
    \/ \E t \in Threads : InitResp(t)
    \/ \E t \in Threads : SlsInited(t)
    \/ \E t \in Threads : StopTerminate(t)
    \/ \E t \in Threads : StopWait(t)
    \/ \E t \in Threads : StopKill(t)
    \/ \E t \in Threads : SlsFailed(t)
    \/ \E t \in Threads : GlsStarted(t)
    \/ \E t \in Threads : PubGot(t)
    \/ \E t \in Threads : CompResp(t)
    \/ \E tr \in 1..nTr : ClientServerSend(tr, {"list"})
    \/ \E tr \in 1..nTr : ClientServerExit(tr)

SpecRace == InitConc /\ [][NextRace]_vars

\* C37: while a public operation starts and registers a server, no step of
\* a stop_all_servers call raises, and every Transport such a step takes
\* out of the registry has had stop() called on it.
C37_StopAllRacesLazyStart ==
    [][\A t \in Threads :
          (th[t].op = "stop_all_servers" /\ th[t].pc # "idle" /\ Moves(t)) =>
             /\ ~th'[t].raised
             /\ \A l \in Languages :
                   (registry[l] # 0 /\ registry'[l] = 0) => stops'[registry[l]] > 0]_vars

\* the response carries "error" and no "result"
IsErrorResponse(m) == m # NoMsg /\ m.method = Nil /\ m.result = "absent"

\* C38: when the response to initialize is a JSON-RPC error, initialize
\* returns False and writes no initialized notification, and the
\* start_language_server that called it returns False.
C38_InitializeErrorRejected ==
    [][\A t \in Threads :
          LET tr == th[t].tr
          IN  /\ (th[t].pc = "init_resp" /\ Moves(t) /\ IsErrorResponse(th[t].ret)) =>
                    (~th'[t].ok /\ sent'[tr] = sent[tr] /\ ~initOk'[tr])
              /\ (th[t].pc = "sls_inited" /\ Moves(t) /\ IsErrorResponse(th[t].ret)) =>
                    ~(th'[t].pc = "idle" /\ th'[t].ok)]_vars

(***************************************************************************)
(* SpecOpen: one caller of LSPClient.get_diagnostics on files of the       *)
(* languages of Languages; the session is chosen by the detected language  *)
(* and the driver runs on it.                                              *)
(***************************************************************************)
\* what the server of Transport tr writes while a driver reads from it
OpenServerSend(tr) ==
    /\ \E t \in Threads : th[t].tr = tr /\ th[t].pc \in {"dg_hs", "dg_wait"}
    /\ ServerSend(tr, {LogMessage, Publish("target", "nonempty")})

NextOpen ==
    \/ \E t \in Threads : CallPublic(t, {"get_diagnostics"}, Languages, MaxOps)
    \/ \E t \in Threads : Gls(t)
    \/ \E t \in Threads : GlsGet(t)
    \/ \E t \in Threads : GlsCmd(t)
    \/ \E t \in Threads : SlsNew(t)
    \/ \E t \in Threads : Start(t)
    \/ \E t \in Threads : SlsStarted(t)
    \/ \E t \in Threads : SrEnter(t)
    \/ \E t \in Threads : SrRead(t)
    \/ \E t \in Threads : SrCheck(t)
    \/ \E t \in Threads : InitResp(t)
    \/ \E t \in Threads : SlsInited(t)
    \/ \E t \in Threads : StopTerminate(t)
    \/ \E t \in Threads : StopWait(t)
    \/ \E t \in Threads : StopKill(t)
    \/ \E t \in Threads : SlsFailed(t)
    \/ \E t \in Threads : GlsStarted(t)
    \/ \E t \in Threads : PubGot(t)
    \/ \E t \in Threads : DgBegin(t)
    \/ \E t \in Threads : DgHandshakeRead(t)
    \/ \E t \in Threads : DgHandshakeMsg(t)
    \/ \E t \in Threads : DgOpen(t)
    \/ \E t \in Threads : DgAttempt(t)
    \/ \E t \in Threads : DgExhausted(t)
    \/ \E t \in Threads : DgMsg(t)
    \/ \E tr \in 1..nTr : ClientServerSend(tr, {"list"})
    \/ \E tr \in 1..nTr : OpenServerSend(tr)

SpecOpen == InitClient /\ [][NextOpen]_vars

\* C39: the languageId of the didOpen a get_diagnostics run sends is the
\* language detected for the file, the one that chose the session.
C39_DidOpenNamesDetectedLanguage ==
    \A t \in Threads :
        (th[t].op = "get_diagnostics" /\ th[t].languageId # Nil) =>
            th[t].languageId = th[t].lang

====
